---- MODULE Spec2Model ----
(***************************************************************************)
(* Model of the Telegram/Gemini bot: the per-user rate windows, the        *)
(* per-user sessions and the message handlers of src/main.py (updates      *)
(* delivered by the aiohttp webhook, handled concurrently) and of          *)
(* src/main_backup.py (updates taken from the update queue one at a time). *)
(***************************************************************************)
EXTENDS Integers, Sequences, FiniteSets, TLC

(* ---------------------------------------------------------------- bounds *)
NumUsers == 2
MaxSenders == 1
MaxHandlers == 2
MaxMsgs == 2
MaxTicks == 1
MaxSendFaults == 2

(* ------------------------------------------------------ program constants *)
MINUTE_LIMIT == 10
DAILY_LIMIT == 250
SESSION_MAXLEN == 50
MINUTE_SECONDS == 60
DAY_SECONDS == 86400

Users == 1..NumUsers
(* the users who send updates where the interleavings of one user's updates *)
(* are explored; every user sends where the users are set side by side      *)
Senders == 1..MaxSenders
Slots == 1..MaxHandlers
Variants == {"main", "backup"}

Max0(a) == IF a > 0 THEN a ELSE 0

(* ------------------------------------------------- RateLimitRegistry ---- *)
(* request_counts[u] = [minute |-> Seq(time), day |-> Seq(time)]            *)

Newer(s, cutoff) == SelectSeq(s, LAMBDA t : t > cutoff)

(* clean_old_requests without the filter: every record is kept *)
keep_all_requests(rc, u, t) == rc

clean_old_requests(rc, u, t) ==
    [rc EXCEPT ![u] = [minute |-> Newer(rc[u].minute, t - MINUTE_SECONDS),
                       day    |-> Newer(rc[u].day, t - DAY_SECONDS)]]

(* returns the purged map together with the two remainders *)
get_remaining_requests(rc, u, t) ==
    LET c == clean_old_requests(rc, u, t)
    IN  [rc |-> c,
         minute |-> Max0(MINUTE_LIMIT - Len(c[u].minute)),
         day    |-> Max0(DAILY_LIMIT - Len(c[u].day))]

(* can_make_request looking at the minute remainder only *)
can_make_request_minute_only(rc, u, t) ==
    LET r == get_remaining_requests(rc, u, t)
    IN  [rc |-> r.rc, ok |-> r.minute > 0]

can_make_request(rc, u, t) ==
    LET r == get_remaining_requests(rc, u, t)
    IN  [rc |-> r.rc, ok |-> (r.minute > 0 /\ r.day > 0)]

(* add_request recording in the minute list only *)
add_request_minute_only(rc, u, t) ==
    [rc EXCEPT ![u] = [minute |-> Append(rc[u].minute, t),
                       day    |-> rc[u].day]]

add_request(rc, u, t) ==
    [rc EXCEPT ![u] = [minute |-> Append(rc[u].minute, t),
                       day    |-> Append(rc[u].day, t)]]

(* --------------------------------------------------------- SessionStore -- *)
(* user_sessions[u] is the sequence of turns, oldest first; session_kind[u] *)
(* tells whether the key is absent from the defaultdict, holds the          *)
(* deque(maxlen=50) made by the default factory, or holds the plain list    *)
(* that main_backup.py's handle_message stores for a missing key.           *)

NoTs == 0 - 1

Turn(role, msg, shape, ts, n) ==
    [role |-> role, msg |-> msg, shape |-> shape, ts |-> ts, n |-> n]

deque_append(s, turn) ==
    IF Len(s) >= SESSION_MAXLEN THEN Append(Tail(s), turn) ELSE Append(s, turn)

(* user_sessions[user_id].append(turn) *)
session_append(s, kind, turn) ==
    IF kind = "list" THEN Append(s, turn) ELSE deque_append(s, turn)

(* the kind of container the key holds after user_sessions[user_id] is read *)
touched(kind) == IF kind = "absent" THEN "deque" ELSE kind

(* ---------------------------------------------------- language model ---- *)
(* What the endpoint did: a well-formed 200, a 200 whose first part has an  *)
(* empty text, a 200 without candidates, a 200 whose candidate has no       *)
(* content, a 200 whose content has no parts, a non-200 status, or the      *)
(* request raised (connection error, timeout).                              *)
Outcomes == {"ok", "empty_text", "no_candidates", "no_content", "no_parts",
             "http_error", "raised"}

(* main.py: the value call_gemini_api returns *)
call_gemini_api(outcome) ==
    CASE outcome = "ok"            -> "text"
      [] outcome = "empty_text"    -> "empty"
      [] outcome = "no_candidates" -> "none"
      [] outcome = "no_content"    -> "none"
      [] outcome = "no_parts"      -> "none"
      [] outcome = "http_error"    -> "none"
      [] OTHER                     -> "none"

(* main_backup.py: the value call_gemini_api returns *)
backup_call_gemini_api(outcome) ==
    CASE outcome = "ok"            -> "text"
      [] outcome = "empty_text"    -> "none"
      [] outcome = "no_candidates" -> "errtext"
      [] outcome = "no_content"    -> "none"
      [] outcome = "no_parts"      -> "errtext"
      [] outcome = "http_error"    -> "errtext"
      [] OTHER                     -> "errtext"

(* how the call went: a text came back, an empty text came back, or the     *)
(* call failed (non-200 status, body without the expected fields, raised)   *)
Answer(outcome) ==
    CASE outcome = "ok"         -> "ok"
      [] outcome = "empty_text" -> "empty"
      [] OTHER                  -> "failed"

(* Python truth value of a returned response *)
Truthy(resp) == resp \in {"text", "errtext"}

(* --------------------------------------------- CurrentDataClassifier ---- *)
(* A message text is the set of the phrases below that occur in it, apart   *)
(* from each other.  The phrases stand for the Russian "novosti" (news),    *)
(* "kurs dollara" (dollar rate), "pogoda" (weather), "segodnya" (today),    *)
(* "interesny" (interesting), "fakt" (fact), "kotory chas" (what time),     *)
(* "skolko let" (how old), "politika" (politics), "privet" (hello).  Each   *)
(* keyword list of the source is the set of these phrases that contain one  *)
(* of its keywords as a substring.                                          *)
Vocabulary == {"novosti", "kurs_dollara", "pogoda", "segodnya", "interesny",
               "fakt", "kotory_chas", "skolko_let", "politika", "privet"}

Hits(q, keywords) == q \cap keywords # {}

(* main.py needs_current_data, lines 957-989 *)
current_keywords == {"novosti", "kurs_dollara", "skolko_let"}
time_keywords == {"segodnya"}

needs_current_data(q) ==
    IF Hits(q, current_keywords) THEN TRUE
    ELSE IF Hits(q, time_keywords)
         THEN (IF "interesny" \in q /\ "fakt" \in q THEN FALSE ELSE TRUE)
         ELSE FALSE

(* main.py get_current_data, lines 991-1009: which search it hands the      *)
(* query to                                                                 *)
get_current_data_branch(q) ==
    IF Hits(q, {"novosti"}) THEN "News"
    ELSE IF Hits(q, {"kurs_dollara"}) THEN "Currency"
    ELSE IF Hits(q, {"pogoda"}) THEN "Weather"
    ELSE IF Hits(q, {"skolko_let"}) THEN "Age"
    ELSE "GeneralSearch"

(* main_backup.py predicates: is_weather_query (1624-1634),                 *)
(* is_politics_query (477-501), is_currency_query (993-1003), the news      *)
(* test of handle_message (line 390), needs_current_data (1463-1541)        *)
is_weather_query(q) == Hits(q, {"pogoda"})
is_politics_query(q) == Hits(q, {"politika"})
is_currency_query(q) == Hits(q, {"kurs_dollara"})
has_news_keywords(q) == Hits(q, {"novosti"})

backup_needs_current_data(q) ==
    \/ Hits(q, {"segodnya", "novosti", "kurs_dollara", "pogoda", "kotory_chas"})
    \/ is_currency_query(q)
    \/ is_weather_query(q)

(* main_backup.py handle_message, lines 388-422: the branch that answers    *)
(* the message.  The weather and news searches always return a text (their  *)
(* findings or an error text); currency tells whether search_currency_rates *)
(* found rates.  get_current_data always returns a text.                    *)
backup_route(q, currency) ==
    IF is_weather_query(q) THEN "Weather"
    ELSE IF is_politics_query(q) \/ has_news_keywords(q) THEN "News"
    ELSE IF is_currency_query(q) /\ currency THEN "Currency"
    ELSE IF backup_needs_current_data(q) THEN "GeneralSearch"
    ELSE "None"

(* main_backup.py search_duckduckgo, lines 1005-1026: the specialised       *)
(* search it hands the query to; a politics query goes to its own search    *)
(* with a prefix                                                            *)
search_duckduckgo_branch(q) ==
    IF is_currency_query(q) /\ ~is_politics_query(q) THEN "Currency"
    ELSE IF is_weather_query(q) THEN "Weather"
    ELSE "GeneralSearch"

(* ------------------------------------------------------------- state ---- *)
VARIABLES
    variant,          \* which program runs: main.py or main_backup.py
    now,              \* the wall clock, in seconds
    ticks,            \* number of clock advances so far
    request_counts,   \* user -> [minute, day]
    user_sessions,    \* user -> sequence of turns
    session_kind,     \* user -> "absent" | "deque" | "list"
    handlers,         \* slot -> the handler invocation running in it
    nextMsg,          \* arrival number of the next inbound update
    turn_n,           \* serial number of the next appended turn
    add_log,          \* inbound updates in the order add_request ran for them
    last_add,         \* the rate windows as the latest add_request left them
    voice_features,   \* main.py VOICE_FEATURES_AVAILABLE (main_backup.py imports
                      \* the voice libraries unconditionally)
    query,            \* the text of a message: the set of phrases it contains
    looked,           \* what the classification and lookup functions returned
                      \* for query
    prompt,           \* the parts of the request body posted to the language
                      \* model for the message whose text is query
    response_len,     \* len(response) of the language model's text
    outbox,           \* the texts handed to reply_text for that response, in
                      \* order: the length of each and whether it was accepted
    voice_reply,      \* main.py: the answer to a voice message by voice, part
                      \* by part: what text_to_speech returned and what was sent
    voice_settings,   \* voice_settings[u]: "absent" while the defaultdict has no
                      \* entry for u, else whether voice answers are switched on
    voice_engine_settings,  \* main.py voice_engine_settings[u]: "absent" or
                      \* the engine stored for u
    last_cmd,         \* the command handled last, and what it found
    numbers,          \* the digit runs of a news query, in order: the value of
                      \* each and whether it stands as a word of its own
    page_sizes,       \* the page_size of each request search_news made to the
                      \* news client for that query
    processed_messages, \* main.py: the keys of the dict, in insertion order
    delivered,        \* the voice updates delivered so far
    last_voice,       \* what the last handle_voice invocation did
    admissions,       \* per user, the admission decisions of handle_voice
    alone,            \* the registries as they would be had only the sender
                      \* of the redelivered message written
    VOICE_ENGINES,    \* main.py: engine id -> its "available" flag
    PIPER_AVAILABLE,
    DEFAULT_VOICE_ENGINE,
    startup           \* main.py: "import" until main() has run, then the path
                      \* main() took

vars == <<variant, now, ticks, request_counts, user_sessions, session_kind,
          handlers, nextMsg, turn_n, add_log, last_add, voice_features,
          query, looked, prompt, response_len, outbox, voice_reply,
          voice_settings, voice_engine_settings, last_cmd, numbers,
          page_sizes, processed_messages, delivered, last_voice, admissions,
          alone, VOICE_ENGINES, PIPER_AVAILABLE, DEFAULT_VOICE_ENGINE, startup>>

(* the per-user settings and the other module-level state outside the rate  *)
(* windows and the sessions                                                 *)
deliveries == <<processed_messages, delivered, last_voice, admissions, alone>>

engines == <<VOICE_ENGINES, PIPER_AVAILABLE, DEFAULT_VOICE_ENGINE, startup>>

settings == <<voice_settings, voice_engine_settings, engines>>

registries == <<settings, numbers, page_sizes, deliveries>>

(* what the message handlers leave alone *)
config == <<variant, voice_features, query, looked, prompt, response_len,
            outbox, voice_reply, registries, last_cmd>>

NoCmd == [name |-> "none"]

(* the module-level state right after import *)
(* main.py lines 34-70: the module's globals after import *)
SettingsInit ==
    /\ voice_settings = [u \in Users |-> "absent"]
    /\ voice_engine_settings = [u \in Users |-> "absent"]
    /\ last_cmd = NoCmd
    /\ VOICE_ENGINES = [e \in {} |-> FALSE]
    /\ PIPER_AVAILABLE = FALSE
    /\ DEFAULT_VOICE_ENGINE = "gtts"
    /\ startup = "import"

NoNews ==
    /\ numbers = <<>>
    /\ page_sizes = <<>>

NoRun == [user |-> 0, msg |-> 0, nth |-> 0, exit |-> "none", llm |-> FALSE,
          appended |-> 0, recorded |-> FALSE]

NoDeliveries ==
    /\ processed_messages = <<>>
    /\ delivered = [others |-> 0, tracked |-> 0, path |-> "answered"]
    /\ last_voice = NoRun
    /\ admissions = [u \in Users |-> <<>>]
    /\ alone = [processed_messages |-> <<>>,
                request_counts |-> [u \in Users |-> [minute |-> <<>>, day |-> <<>>]],
                user_sessions |-> [u \in Users |-> <<>>],
                admissions |-> [u \in Users |-> <<>>]]

RegistriesInit == SettingsInit /\ NoNews /\ NoDeliveries

(* no voice message is being answered by voice *)
NoVoice == [pc |-> "none"]

(* nothing has been classified or looked up yet *)
NoLook == [site |-> "none"]

StartTime == 2 * DAY_SECONDS

Idle ==
    [pc |-> "idle", user |-> 0, kind |-> "none", msg |-> 0, admit |-> "?",
     chk |-> [seen |-> FALSE, ok |-> TRUE, m |-> 0, d |-> 0, age |-> NoTs], llm |-> "none", lookup |-> FALSE, resp |-> "none",
     rem |-> <<0, 0>>, sends |-> <<>>, recorded |-> 0, steps |-> <<>>,
     stt |-> "?"]

NoAdd == [user |-> 0, at |-> 0, before |-> 0, after |-> 0,
          minute |-> <<>>, day |-> <<>>]

(* a reply handed to the transport: what text, the two counts it states    *)
(* (NoTs when it states none), and whether the transport accepted it        *)
Reply(what, rm, rd, ok) == [what |-> what, rm |-> rm, rd |-> rd, ok |-> ok]

(* the reply a rejection would send if it left the day count out *)
limit_reply_without_day(rm, rd, ok) == Reply("limit", rm, NoTs, ok)

(* the rejection reply: both remainders are in its text *)
limit_reply(rm, rd, ok) == Reply("limit", rm, rd, ok)

(* States the program reaches before the modelled run starts: a user with  *)
(* m requests in the last minute out of d in the last day, and a session    *)
(* of s turns.                                                              *)
Prefills ==
    { [m |-> 0, d |-> 0, s |-> 0],
      [m |-> MINUTE_LIMIT - 1, d |-> MINUTE_LIMIT - 1, s |-> SESSION_MAXLEN - 1],
      [m |-> MINUTE_LIMIT, d |-> MINUTE_LIMIT, s |-> 0],
      [m |-> 0, d |-> DAILY_LIMIT - 1, s |-> 0] }

InitDay(m, d) ==
    [i \in 1..d |->
        IF i <= d - m
        THEN StartTime - MINUTE_SECONDS - 10 * (d - m - i + 1)
        ELSE StartTime - (MINUTE_SECONDS - 1) + 6 * (i - (d - m) - 1)]

InitWindow(m, d) ==
    [minute |-> SubSeq(InitDay(m, d), d - m + 1, d), day |-> InitDay(m, d)]

InitSession(v, s) ==
    [i \in 1..s |->
        Turn(IF i % 2 = 1 THEN "user" ELSE "assistant", 0,
             IF v = "backup" THEN "parts" ELSE "content",
             IF v = "backup" THEN StartTime - MINUTE_SECONDS ELSE NoTs, i)]

Init ==
    /\ variant \in Variants
    /\ now = StartTime
    /\ ticks = 0
    /\ \E p \in Prefills :
         /\ request_counts =
              [u \in Users |-> IF u = 1 THEN InitWindow(p.m, p.d)
                               ELSE [minute |-> <<>>, day |-> <<>>]]
         /\ user_sessions =
              [u \in Users |-> IF u = 1 THEN InitSession(variant, p.s) ELSE <<>>]
         /\ session_kind =
              [u \in Users |-> IF u = 1 /\ p.s > 0
                               THEN (IF variant = "backup" THEN "list" ELSE "deque")
                               ELSE "absent"]
         /\ turn_n = p.s + 1
    /\ handlers = [s \in Slots |-> Idle]
    /\ nextMsg = 1
    /\ add_log = <<>>
    /\ last_add = NoAdd
    /\ voice_features \in (IF variant = "main" THEN BOOLEAN ELSE {TRUE})
    /\ query = {}
    /\ looked = NoLook
    /\ prompt = <<>>
    /\ response_len = 0
    /\ outbox = <<>>
    /\ voice_reply = NoVoice
    /\ RegistriesInit

(* ------------------------------------------------------------- clock ---- *)
TickDeltas == {1, MINUTE_SECONDS + 1, DAY_SECONDS}

Tick ==
    /\ ticks < MaxTicks
    /\ \E d \in TickDeltas : now' = now + d
    /\ ticks' = ticks + 1
    /\ UNCHANGED <<config, request_counts, user_sessions, session_kind,
                   handlers, nextMsg, turn_n, add_log, last_add>>

(* the transport refuses at most MaxSendFaults sends of one invocation *)
Faults(sends) == Cardinality({i \in 1..Len(sends) : ~sends[i].ok})

SendFaultsBounded(s) == Faults(handlers[s].sends) <= MaxSendFaults

(* --------------------------------------------------- inbound updates ---- *)
Kinds == {"text", "photo", "voice"}

InFlight(s) == handlers[s].pc \notin {"idle", "done"}

(* the slot a new invocation takes: the lowest one that is free *)
FreeSlot(s) == ~InFlight(s) /\ \A r \in Slots : r < s => InFlight(r)

(* main.py: webhook_handler awaits process_update inside the aiohttp        *)
(* request handler, so a new update is handled while earlier ones are       *)
(* suspended.  main_backup.py: the Application takes updates from its       *)
(* queue one at a time.                                                     *)
MayStart == variant = "main" \/ \A s \in Slots : ~InFlight(s)

Arrive(u, k) ==
    /\ nextMsg <= MaxMsgs
    /\ MayStart
    /\ \E s \in Slots :
         /\ FreeSlot(s)
         /\ handlers' = [handlers EXCEPT ![s] =
                [Idle EXCEPT !.pc = "check", !.user = u, !.kind = k, !.msg = nextMsg]]
    /\ nextMsg' = nextMsg + 1
    /\ UNCHANGED <<config, now, ticks, request_counts, user_sessions,
                   session_kind, turn_n, add_log, last_add>>

(* what add_request leaves behind, before any later purge *)
AddRecord(rc, u, t) ==
    [user |-> u, at |-> t,
     before |-> get_remaining_requests(rc, u, t).minute,
     after  |-> get_remaining_requests(add_request(rc, u, t), u, t).minute,
     minute |-> add_request(rc, u, t)[u].minute,
     day    |-> add_request(rc, u, t)[u].day]

(* how many timestamps of a window are still inside it at time t *)
Live(w, t, span) == Cardinality({i \in 1..Len(w) : w[i] > t - span})

(* what an invocation finds when it starts: whether can_make_request lets   *)
(* the sender through, how many requests the sender has inside each window, *)
(* and how long ago the last one was recorded (NoTs when none is)           *)
Observe(rc, u, t) ==
    [seen |-> TRUE,
     ok   |-> can_make_request(rc, u, t).ok,
     m    |-> Live(rc[u].minute, t, MINUTE_SECONDS),
     d    |-> Live(rc[u].day, t, DAY_SECONDS),
     age  |-> IF Len(rc[u].day) = 0 THEN NoTs ELSE t - rc[u].day[Len(rc[u].day)]]

(* ------------------------------------------ main.py: handle_message ---- *)
(* lines 905-913: the admission check and the rejection reply *)
handle_message_check(s) ==
    LET h == handlers[s]
        c == can_make_request(request_counts, h.user, now)
        r == get_remaining_requests(c.rc, h.user, now)
    IN  /\ variant = "main" /\ h.kind = "text" /\ h.pc = "check"
        /\ request_counts' = (IF c.ok THEN c.rc ELSE r.rc)
        /\ IF c.ok
           THEN handlers' = [handlers EXCEPT ![s] =
                    [h EXCEPT !.pc = "append", !.admit = "yes",
                              !.chk = Observe(request_counts, h.user, now),
                              !.steps = <<"admit">>]]
           ELSE \E ok \in BOOLEAN :
                  handlers' = [handlers EXCEPT ![s] =
                    [h EXCEPT !.pc = (IF ok THEN "done" ELSE "raised"),
                              !.admit = "no", !.chk = Observe(request_counts, h.user, now),
                              !.rem = <<r.minute, r.day>>,
                              !.sends = Append(h.sends,
                                   limit_reply(r.minute, r.day, ok))]]
        /\ SendFaultsBounded(s)'
        /\ UNCHANGED <<config, now, ticks, user_sessions, session_kind,
                       nextMsg, turn_n, add_log, last_add>>

(* lines 918-920: the user turn goes into the session *)
handle_message_append(s) ==
    LET h == handlers[s]
        u == h.user
    IN  /\ variant = "main" /\ h.kind = "text" /\ h.pc = "append"
        /\ user_sessions' = [user_sessions EXCEPT ![u] =
               session_append(@, session_kind[u],
                              Turn("user", h.msg, "content", NoTs, turn_n))]
        /\ session_kind' = [session_kind EXCEPT ![u] = touched(@)]
        /\ turn_n' = turn_n + 1
        /\ handlers' = [handlers EXCEPT ![s] =
               [h EXCEPT !.pc = "llm", !.steps = Append(h.steps, "user_turn")]]
        /\ UNCHANGED <<config, now, ticks, request_counts, nextMsg,
                       add_log, last_add>>

(* lines 922-932 and 946-955: call_gemini_api returns; a response is        *)
(* recorded and the remainders read, no response gets the fallback reply    *)
handle_message_llm(s) ==
    LET h == handlers[s]
        u == h.user
    IN  /\ variant = "main" /\ h.kind = "text" /\ h.pc = "llm"
        /\ \E o \in Outcomes :
             LET resp == call_gemini_api(o)
                 r == get_remaining_requests(add_request(request_counts, u, now), u, now)
                 g == [h EXCEPT !.llm = Answer(o),
                                !.resp = resp]
             IN  IF Truthy(resp)
                 THEN /\ request_counts' = r.rc
                      /\ add_log' = Append(add_log, [user |-> h.user, msg |-> h.msg])
                      /\ last_add' = AddRecord(request_counts, u, now)
                      /\ handlers' = [handlers EXCEPT ![s] =
                             [g EXCEPT !.pc = "send", !.recorded = h.recorded + 1,
                                       !.rem = <<r.minute, r.day>>,
                                       !.steps = h.steps \o <<"llm", "record">>]]
                 ELSE /\ \E ok \in BOOLEAN :
                           handlers' = [handlers EXCEPT ![s] =
                             [g EXCEPT !.pc = (IF ok THEN "done" ELSE "raised"),
                                       !.sends = Append(h.sends,
                                            Reply("fallback", NoTs, NoTs, ok))]]
                      /\ UNCHANGED <<request_counts, add_log, last_add>>
        /\ SendFaultsBounded(s)'
        /\ UNCHANGED <<config, now, ticks, user_sessions, session_kind,
                       nextMsg, turn_n>>

(* main.py safe_send_message, lines 1141-1153: the text is sent; when the   *)
(* send raises, one error text is sent, and if that raises too the          *)
(* exception leaves safe_send_message.  Result: the sends and whether the   *)
(* caller goes on.                                                          *)
safe_send_message(sends, what, rm, rd, ok1, ok2) ==
    IF ok1
    THEN [sends |-> Append(sends, Reply(what, rm, rd, TRUE)), raised |-> FALSE]
    ELSE [sends |-> Append(Append(sends, Reply(what, rm, rd, FALSE)),
                           Reply("send_error", NoTs, NoTs, ok2)),
          raised |-> ~ok2]

(* lines 934-945: the reply is sent, then the assistant turn is appended *)
handle_message_send(s) ==
    LET h == handlers[s]
        u == h.user
    IN  /\ variant = "main" /\ h.kind = "text" /\ h.pc = "send"
        /\ \E ok1, ok2 \in BOOLEAN :
             LET m == safe_send_message(h.sends, "model", h.rem[1], h.rem[2], ok1, ok2)
             IN  /\ (ok1 => ok2)
                 /\ handlers' = [handlers EXCEPT ![s] =
                        [h EXCEPT !.pc = (IF m.raised THEN "raised" ELSE "done"),
                                  !.sends = m.sends,
                                  !.steps = h.steps \o
                                      (IF m.raised THEN <<"reply">>
                                       ELSE <<"reply", "assistant_turn">>)]]
                 /\ IF m.raised
                    THEN UNCHANGED <<user_sessions, session_kind, turn_n>>
                    ELSE /\ user_sessions' = [user_sessions EXCEPT ![u] =
                               session_append(@, session_kind[u],
                                   Turn("assistant", h.msg, "content", NoTs, turn_n))]
                         /\ session_kind' = [session_kind EXCEPT ![u] = touched(@)]
                         /\ turn_n' = turn_n + 1
        /\ SendFaultsBounded(s)'
        /\ UNCHANGED <<config, now, ticks, request_counts, nextMsg,
                       add_log, last_add>>

(* One reply_text inside a try block whose except clause sends one error   *)
(* text: the reply, and on its failure the error text; the exception       *)
(* leaves the handler when the error text fails too.                       *)
guarded_reply(sends, what, rm, rd, errwhat, ok1, ok2) ==
    IF ok1
    THEN [sends |-> Append(sends, Reply(what, rm, rd, TRUE)), raised |-> FALSE]
    ELSE [sends |-> Append(Append(sends, Reply(what, rm, rd, FALSE)),
                           Reply(errwhat, NoTs, NoTs, ok2)),
          raised |-> ~ok2]

(* An exception inside a try block whose except clause sends one error text *)
except_reply(sends, errwhat, ok) ==
    [sends |-> Append(sends, Reply(errwhat, NoTs, NoTs, ok)), raised |-> ~ok]

(* -------------------------------------------- main.py: handle_photo ---- *)
(* lines 1161-1170: the admission check, the rejection reply, and the       *)
(* record of the request, which is made before the image is fetched         *)
handle_photo_check(s) ==
    LET h == handlers[s]
        u == h.user
        c == can_make_request(request_counts, u, now)
        r == get_remaining_requests(c.rc, u, now)
    IN  /\ variant = "main" /\ h.kind = "photo" /\ h.pc = "check"
        /\ IF c.ok
           THEN /\ request_counts' = add_request(c.rc, u, now)
                /\ add_log' = Append(add_log, [user |-> h.user, msg |-> h.msg])
                /\ last_add' = AddRecord(c.rc, u, now)
                /\ handlers' = [handlers EXCEPT ![s] =
                       [h EXCEPT !.pc = "work", !.admit = "yes",
                                 !.chk = Observe(request_counts, u, now),
                                 !.recorded = h.recorded + 1]]
           ELSE /\ request_counts' = r.rc
                /\ \E ok \in BOOLEAN :
                     handlers' = [handlers EXCEPT ![s] =
                       [h EXCEPT !.pc = (IF ok THEN "done" ELSE "raised"),
                                 !.admit = "no", !.chk = Observe(request_counts, u, now),
                                 !.rem = <<r.minute, r.day>>,
                                 !.sends = Append(h.sends,
                                      limit_reply(r.minute, r.day, ok))]]
                /\ UNCHANGED <<add_log, last_add>>
        /\ SendFaultsBounded(s)'
        /\ UNCHANGED <<config, now, ticks, user_sessions, session_kind,
                       nextMsg, turn_n>>

Downloads == {"ok", "bad_status", "raised"}

(* lines 1172-1224: the image is fetched and sent to the model inline; the  *)
(* answer or an error text is sent; nothing goes into the session           *)
handle_photo_work(s) ==
    LET h == handlers[s]
    IN  /\ variant = "main" /\ h.kind = "photo" /\ h.pc = "work"
        /\ \E d \in Downloads, o \in Outcomes, ok1, ok2, ok3 \in BOOLEAN :
             LET called == (d = "ok")
                 g == [h EXCEPT !.llm = (IF ~called THEN "none"
                                         ELSE Answer(o)),
                                !.resp = (IF called /\ o \in {"ok", "empty_text"}
                                          THEN call_gemini_api(o) ELSE "none")]
                 m == CASE d = "raised" -> except_reply(h.sends, "photo_error", ok1)
                        [] d = "bad_status" ->
                             guarded_reply(h.sends, "download_failed", NoTs, NoTs,
                                           "photo_error", ok1, ok2)
                        [] o \in {"ok", "empty_text"} ->
                             LET f == safe_send_message(h.sends, "model", NoTs, NoTs,
                                                        ok1, ok2)
                             IN  IF f.raised
                                 THEN except_reply(f.sends, "photo_error", ok3)
                                 ELSE f
                        [] o = "no_candidates" ->
                             guarded_reply(h.sends, "photo_unprocessed", NoTs, NoTs,
                                           "photo_error", ok1, ok2)
                        [] o = "http_error" ->
                             guarded_reply(h.sends, "photo_api_error", NoTs, NoTs,
                                           "photo_error", ok1, ok2)
                        [] OTHER -> except_reply(h.sends, "photo_error", ok1)
             IN  handlers' = [handlers EXCEPT ![s] =
                    [g EXCEPT !.pc = (IF m.raised THEN "raised" ELSE "done"),
                              !.sends = m.sends]]
        /\ SendFaultsBounded(s)'
        /\ UNCHANGED <<config, now, ticks, request_counts, user_sessions,
                       session_kind, nextMsg, turn_n, add_log, last_add>>

(* -------------------------------------------- main.py: handle_voice ---- *)
(* lines 1241-1257: without the voice libraries the handler only says so;   *)
(* otherwise the admission check and the rejection reply                    *)
handle_voice_check(s) ==
    LET h == handlers[s]
        u == h.user
        c == can_make_request(request_counts, u, now)
        r == get_remaining_requests(c.rc, u, now)
    IN  /\ variant = "main" /\ h.kind = "voice" /\ h.pc = "check"
        /\ IF ~voice_features
           THEN /\ \E ok \in BOOLEAN :
                     handlers' = [handlers EXCEPT ![s] =
                       [h EXCEPT !.pc = (IF ok THEN "done" ELSE "raised"),
                                 !.chk = Observe(request_counts, u, now),
                                 !.sends = Append(h.sends,
                                      Reply("voice_unavailable", NoTs, NoTs, ok))]]
                /\ UNCHANGED request_counts
           ELSE IF c.ok
           THEN /\ request_counts' = c.rc
                /\ handlers' = [handlers EXCEPT ![s] =
                       [h EXCEPT !.pc = "stt", !.admit = "yes",
                                 !.chk = Observe(request_counts, u, now)]]
           ELSE /\ request_counts' = r.rc
                /\ \E ok1, ok2 \in BOOLEAN :
                     LET m == guarded_reply(h.sends, "limit", r.minute, r.day,
                                            "voice_error", ok1, ok2)
                     IN  /\ (ok1 => ok2)
                         /\ handlers' = [handlers EXCEPT ![s] =
                              [h EXCEPT !.pc = (IF m.raised THEN "raised" ELSE "done"),
                                        !.admit = "no", !.chk = Observe(request_counts, u, now),
                                        !.rem = <<r.minute, r.day>>,
                                        !.sends = m.sends]]
        /\ SendFaultsBounded(s)'
        /\ UNCHANGED <<config, now, ticks, user_sessions, session_kind,
                       nextMsg, turn_n, add_log, last_add>>

Recognitions == {"text", "none", "raised"}

(* a recognition failure answered by nothing *)
recognition_failed_silent(sends, ok1, ok2) == [sends |-> sends, raised |-> FALSE]

(* lines 1275-1283: the hint sent when speech_to_text returned None, inside *)
(* the try block of handle_voice                                            *)
recognition_failed_reply(sends, ok1, ok2) ==
    guarded_reply(sends, "hint", NoTs, NoTs, "voice_error", ok1, ok2)

(* lines 1259-1292: the audio is fetched and recognised; without a text the *)
(* hint is sent, with one the user turn goes into the session               *)
handle_voice_transcribe(s) ==
    LET h == handlers[s]
        u == h.user
    IN  /\ variant = "main" /\ h.kind = "voice" /\ h.pc = "stt"
        /\ \E t \in Recognitions, ok1, ok2 \in BOOLEAN :
             IF t = "text"
             THEN /\ ok1 /\ ok2
                  /\ user_sessions' = [user_sessions EXCEPT ![u] =
                         session_append(@, session_kind[u],
                                        Turn("user", h.msg, "content", NoTs, turn_n))]
                  /\ session_kind' = [session_kind EXCEPT ![u] = touched(@)]
                  /\ turn_n' = turn_n + 1
                  /\ handlers' = [handlers EXCEPT ![s] =
                            [h EXCEPT !.pc = "llm", !.stt = t]]
             ELSE LET m == IF t = "none"
                           THEN recognition_failed_reply(h.sends, ok1, ok2)
                           ELSE except_reply(h.sends, "voice_error", ok1)
                  IN  /\ (ok1 \/ t = "raised") => ok2
                      /\ handlers' = [handlers EXCEPT ![s] =
                            [h EXCEPT !.pc = (IF m.raised THEN "raised" ELSE "done"),
                                      !.stt = t,
                                      !.sends = m.sends]]
                      /\ UNCHANGED <<user_sessions, session_kind, turn_n>>
        /\ SendFaultsBounded(s)'
        /\ UNCHANGED <<config, now, ticks, request_counts, nextMsg,
                       add_log, last_add>>

(* lines 1294-1307 and 1357-1365: call_gemini_api returns; a response is    *)
(* recorded and the remainders read, no response gets the fallback reply    *)
handle_voice_llm(s) ==
    LET h == handlers[s]
        u == h.user
    IN  /\ variant = "main" /\ h.kind = "voice" /\ h.pc = "llm"
        /\ \E o \in Outcomes :
             LET resp == call_gemini_api(o)
                 r == get_remaining_requests(add_request(request_counts, u, now), u, now)
                 g == [h EXCEPT !.llm = Answer(o),
                                !.resp = resp]
             IN  IF Truthy(resp)
                 THEN /\ request_counts' = r.rc
                      /\ add_log' = Append(add_log, [user |-> h.user, msg |-> h.msg])
                      /\ last_add' = AddRecord(request_counts, u, now)
                      /\ handlers' = [handlers EXCEPT ![s] =
                             [g EXCEPT !.pc = "send", !.recorded = h.recorded + 1,
                                       !.rem = <<r.minute, r.day>>]]
                 ELSE /\ \E ok1, ok2 \in BOOLEAN :
                           LET m == guarded_reply(h.sends, "fallback", NoTs, NoTs,
                                                  "voice_error", ok1, ok2)
                           IN  /\ (ok1 => ok2)
                               /\ handlers' = [handlers EXCEPT ![s] =
                                    [g EXCEPT !.pc = (IF m.raised THEN "raised"
                                                      ELSE "done"),
                                              !.sends = m.sends]]
                      /\ UNCHANGED <<request_counts, add_log, last_add>>
        /\ SendFaultsBounded(s)'
        /\ UNCHANGED <<config, now, ticks, user_sessions, session_kind,
                       nextMsg, turn_n>>

(* how the answer to a voice message goes out: as text because the engine   *)
(* is not available, as one voice message, as text because synthesis gave   *)
(* nothing, or in several parts                                             *)
VoiceModes == {"text", "voice", "tts_failed", "parts"}

(* lines 1309-1356: the answer is sent, then the assistant turn is appended; *)
(* send_voice_parts (1379-1424) catches the failure of each part, and lets   *)
(* the failure of the text it sends in its except clause through            *)
handle_voice_send(s) ==
    LET h == handlers[s]
        u == h.user
    IN  /\ variant = "main" /\ h.kind = "voice" /\ h.pc = "send"
        /\ \E v \in VoiceModes, ok1, ok2 \in BOOLEAN :
             LET m == guarded_reply(h.sends,
                                CASE v = "voice" -> "voice_answer"
                                  [] v = "parts" -> "voice_parts"
                                  [] OTHER       -> "model",
                                h.rem[1], h.rem[2], "voice_error", ok1, ok2)
                 appended == ok1
             IN  /\ ok1 => ok2
                 /\ handlers' = [handlers EXCEPT ![s] =
                        [h EXCEPT !.pc = (IF m.raised THEN "raised" ELSE "done"),
                                  !.sends = m.sends]]
                 /\ IF appended
                    THEN /\ user_sessions' = [user_sessions EXCEPT ![u] =
                               session_append(@, session_kind[u],
                                   Turn("assistant", h.msg, "content", NoTs, turn_n))]
                         /\ session_kind' = [session_kind EXCEPT ![u] = touched(@)]
                         /\ turn_n' = turn_n + 1
                    ELSE UNCHANGED <<user_sessions, session_kind, turn_n>>
        /\ SendFaultsBounded(s)'
        /\ UNCHANGED <<config, now, ticks, request_counts, nextMsg,
                       add_log, last_add>>

(* ------------------------------ main_backup.py: safe_send_message ---- *)
(* lines 503-554: up to five attempts, the first two with the counts when   *)
(* they are given, the next two with the text alone, the last a fixed       *)
(* error text; no exception leaves it.  k is the first attempt the          *)
(* transport accepts, 6 when it accepts none.                               *)
SendAttempts == 5

backup_attempt(what, rm, rd, i, ok) ==
    IF i <= 2 THEN Reply(what, rm, rd, ok)
    ELSE IF i <= 4 THEN Reply(what, NoTs, NoTs, ok)
    ELSE Reply("send_error", NoTs, NoTs, ok)

backup_safe_send_message(sends, what, rm, rd, k) ==
    sends \o [i \in 1..(IF k > SendAttempts THEN SendAttempts ELSE k) |->
                 backup_attempt(what, rm, rd, i, i = k)]

FirstAccepted == 1..(SendAttempts + 1)

(* ----------------------------------- main_backup.py: handle_message ---- *)
(* lines 367-378: the admission check, the rejection reply, and the record  *)
(* of the request, which is made before any lookup or model call            *)
backup_handle_message_check(s) ==
    LET h == handlers[s]
        u == h.user
        c == can_make_request(request_counts, u, now)
        r == get_remaining_requests(c.rc, u, now)
    IN  /\ variant = "backup" /\ h.kind = "text" /\ h.pc = "check"
        /\ IF c.ok
           THEN /\ request_counts' = add_request(c.rc, u, now)
                /\ add_log' = Append(add_log, [user |-> h.user, msg |-> h.msg])
                /\ last_add' = AddRecord(c.rc, u, now)
                /\ handlers' = [handlers EXCEPT ![s] =
                       [h EXCEPT !.pc = "route", !.admit = "yes",
                                 !.chk = Observe(request_counts, u, now),
                                 !.recorded = h.recorded + 1,
                                 !.steps = <<"admit", "record">>]]
           ELSE /\ request_counts' = r.rc
                /\ \E k \in FirstAccepted :
                     handlers' = [handlers EXCEPT ![s] =
                       [h EXCEPT !.pc = "done", !.admit = "no",
                                 !.chk = Observe(request_counts, u, now),
                                 !.rem = <<r.minute, r.day>>,
                                 !.sends = backup_safe_send_message(h.sends,
                                      "limit", r.minute, r.day, k)]]
                /\ UNCHANGED <<add_log, last_add>>
        /\ SendFaultsBounded(s)'
        /\ UNCHANGED <<config, now, ticks, user_sessions, session_kind,
                       nextMsg, turn_n>>

(* where the classification of the text sends the message: a lookup answers *)
(* it, a lookup is tried and gives nothing, no lookup is needed, or a       *)
(* lookup raises                                                            *)
Routes == {"lookup", "lookup_empty", "llm", "raised"}

(* a stored turn that has no "parts" key makes the prompt loop raise *)
HasContentTurn(sess) == \E i \in 1..Len(sess) : sess[i].shape = "content"

(* lines 383-447: the lookups; an answer from one of them is the reply.     *)
(* Otherwise a missing key gets a plain list, the rate windows are purged,  *)
(* the user turn is appended and the prompt is built from every stored turn *)
backup_handle_message_route(s) ==
    LET h == handlers[s]
        u == h.user
        kind == IF session_kind[u] = "absent" THEN "list" ELSE session_kind[u]
        sess == session_append(user_sessions[u], kind,
                               Turn("user", h.msg, "parts", now, turn_n))
    IN  /\ variant = "backup" /\ h.kind = "text" /\ h.pc = "route"
        /\ \E route \in Routes, k \in FirstAccepted :
             IF route \in {"lookup", "raised"}
             THEN /\ handlers' = [handlers EXCEPT ![s] =
                        [h EXCEPT !.pc = "done", !.lookup = TRUE,
                                  !.steps = h.steps \o <<"classify", "fetch", "reply">>,
                                  !.sends = backup_safe_send_message(h.sends,
                                       IF route = "lookup" THEN "lookup"
                                       ELSE "handler_error", NoTs, NoTs, k)]]
                  /\ UNCHANGED <<request_counts, user_sessions, session_kind, turn_n>>
             ELSE /\ request_counts' = clean_old_requests(request_counts, u, now)
                  /\ user_sessions' = [user_sessions EXCEPT ![u] = sess]
                  /\ session_kind' = [session_kind EXCEPT ![u] = kind]
                  /\ turn_n' = turn_n + 1
                  /\ IF HasContentTurn(sess)
                     THEN handlers' = [handlers EXCEPT ![s] =
                            [h EXCEPT !.pc = "done",
                                      !.lookup = (route = "lookup_empty"),
                                      !.steps = h.steps \o
                                          (IF route = "lookup_empty"
                                           THEN <<"classify", "fetch", "user_turn", "reply">>
                                           ELSE <<"classify", "user_turn", "reply">>),
                                      !.sends = backup_safe_send_message(h.sends,
                                           "handler_error", NoTs, NoTs, k)]]
                     ELSE /\ k = 1
                          /\ handlers' = [handlers EXCEPT ![s] =
                               [h EXCEPT !.pc = "llm",
                                         !.lookup = (route = "lookup_empty"),
                                         !.steps = h.steps \o
                                             (IF route = "lookup_empty"
                                              THEN <<"classify", "fetch", "user_turn">>
                                              ELSE <<"classify", "user_turn">>)]]
        /\ SendFaultsBounded(s)'
        /\ UNCHANGED <<config, now, ticks, nextMsg, add_log, last_add>>

(* lines 451-475: call_gemini_api returns; a response is appended as the    *)
(* model turn and sent with the remainders, no response gets an error text  *)
backup_handle_message_llm(s) ==
    LET h == handlers[s]
        u == h.user
    IN  /\ variant = "backup" /\ h.kind = "text" /\ h.pc = "llm"
        /\ \E o \in Outcomes, k \in FirstAccepted :
             LET resp == backup_call_gemini_api(o)
                 r == get_remaining_requests(request_counts, u, now)
                 g == [h EXCEPT !.pc = "done",
                                !.llm = Answer(o),
                                !.resp = resp]
             IN  IF Truthy(resp)
                 THEN /\ user_sessions' = [user_sessions EXCEPT ![u] =
                            session_append(@, session_kind[u],
                                Turn("assistant", h.msg, "parts", now, turn_n))]
                      /\ session_kind' = [session_kind EXCEPT ![u] = touched(@)]
                      /\ turn_n' = turn_n + 1
                      /\ request_counts' = r.rc
                      /\ handlers' = [handlers EXCEPT ![s] =
                             [g EXCEPT !.rem = <<r.minute, r.day>>,
                                       !.steps = h.steps \o
                                           <<"llm", "assistant_turn", "reply">>,
                                       !.sends = backup_safe_send_message(h.sends,
                                            "model", r.minute, r.day, k)]]
                 ELSE /\ handlers' = [handlers EXCEPT ![s] =
                             [g EXCEPT !.sends = backup_safe_send_message(h.sends,
                                            "fallback", NoTs, NoTs, k)]]
                      /\ UNCHANGED <<request_counts, user_sessions, session_kind,
                                     turn_n>>
        /\ SendFaultsBounded(s)'
        /\ UNCHANGED <<config, now, ticks, nextMsg, add_log, last_add>>

(* ------------------------------------- main_backup.py: handle_photo ---- *)
(* lines 562-568: the admission check and the rejection reply *)
backup_handle_photo_check(s) ==
    LET h == handlers[s]
        u == h.user
        c == can_make_request(request_counts, u, now)
        r == get_remaining_requests(c.rc, u, now)
    IN  /\ variant = "backup" /\ h.kind = "photo" /\ h.pc = "check"
        /\ request_counts' = (IF c.ok THEN c.rc ELSE r.rc)
        /\ IF c.ok
           THEN handlers' = [handlers EXCEPT ![s] =
                    [h EXCEPT !.pc = "work", !.admit = "yes",
                              !.chk = Observe(request_counts, u, now)]]
           ELSE \E ok \in BOOLEAN :
                  handlers' = [handlers EXCEPT ![s] =
                    [h EXCEPT !.pc = (IF ok THEN "done" ELSE "raised"),
                              !.admit = "no", !.chk = Observe(request_counts, u, now),
                              !.rem = <<r.minute, r.day>>,
                              !.sends = Append(h.sends,
                                   limit_reply(r.minute, r.day, ok))]]
        /\ SendFaultsBounded(s)'
        /\ UNCHANGED <<config, now, ticks, user_sessions, session_kind,
                       nextMsg, turn_n, add_log, last_add>>

(* lines 570-600: the image is fetched, then the user turn is appended *)
backup_handle_photo_append(s) ==
    LET h == handlers[s]
        u == h.user
    IN  /\ variant = "backup" /\ h.kind = "photo" /\ h.pc = "work"
        /\ \E d \in {"ok", "raised"}, k \in FirstAccepted :
             IF d = "ok"
             THEN /\ k = 1
                  /\ user_sessions' = [user_sessions EXCEPT ![u] =
                         session_append(@, session_kind[u],
                                        Turn("user", h.msg, "content", now, turn_n))]
                  /\ session_kind' = [session_kind EXCEPT ![u] = touched(@)]
                  /\ turn_n' = turn_n + 1
                  /\ handlers' = [handlers EXCEPT ![s].pc = "llm"]
             ELSE /\ handlers' = [handlers EXCEPT ![s] =
                         [h EXCEPT !.pc = "done",
                                   !.sends = backup_safe_send_message(h.sends,
                                        "photo_error", NoTs, NoTs, k)]]
                  /\ UNCHANGED <<user_sessions, session_kind, turn_n>>
        /\ SendFaultsBounded(s)'
        /\ UNCHANGED <<config, now, ticks, request_counts, nextMsg,
                       add_log, last_add>>

(* lines 602-630: call_gemini_api returns; a response is recorded, appended *)
(* as the assistant turn and sent with the remainders                       *)
backup_handle_photo_llm(s) ==
    LET h == handlers[s]
        u == h.user
    IN  /\ variant = "backup" /\ h.kind = "photo" /\ h.pc = "llm"
        /\ \E o \in Outcomes, k \in FirstAccepted :
             LET resp == backup_call_gemini_api(o)
                 r == get_remaining_requests(add_request(request_counts, u, now), u, now)
                 g == [h EXCEPT !.pc = "done",
                                !.llm = Answer(o),
                                !.resp = resp]
             IN  IF Truthy(resp)
                 THEN /\ request_counts' = r.rc
                      /\ add_log' = Append(add_log, [user |-> h.user, msg |-> h.msg])
                      /\ last_add' = AddRecord(request_counts, u, now)
                      /\ user_sessions' = [user_sessions EXCEPT ![u] =
                            session_append(@, session_kind[u],
                                Turn("assistant", h.msg, "content", now, turn_n))]
                      /\ session_kind' = [session_kind EXCEPT ![u] = touched(@)]
                      /\ turn_n' = turn_n + 1
                      /\ handlers' = [handlers EXCEPT ![s] =
                             [g EXCEPT !.recorded = h.recorded + 1,
                                       !.rem = <<r.minute, r.day>>,
                                       !.sends = backup_safe_send_message(h.sends,
                                            "model", r.minute, r.day, k)]]
                 ELSE /\ handlers' = [handlers EXCEPT ![s] =
                             [g EXCEPT !.sends = backup_safe_send_message(h.sends,
                                            "photo_error", NoTs, NoTs, k)]]
                      /\ UNCHANGED <<request_counts, add_log, last_add,
                                     user_sessions, session_kind, turn_n>>
        /\ SendFaultsBounded(s)'
        /\ UNCHANGED <<config, now, ticks, nextMsg>>

(* ------------------------------------- main_backup.py: handle_voice ---- *)
(* lines 732-739: the admission check and the rejection reply; a failed     *)
(* reply is caught by the handler, which then sends its error text          *)
backup_handle_voice_check(s) ==
    LET h == handlers[s]
        u == h.user
        c == can_make_request(request_counts, u, now)
        r == get_remaining_requests(c.rc, u, now)
    IN  /\ variant = "backup" /\ h.kind = "voice" /\ h.pc = "check"
        /\ request_counts' = (IF c.ok THEN c.rc ELSE r.rc)
        /\ IF c.ok
           THEN handlers' = [handlers EXCEPT ![s] =
                    [h EXCEPT !.pc = "stt", !.admit = "yes",
                              !.chk = Observe(request_counts, u, now)]]
           ELSE \E ok \in BOOLEAN, k \in FirstAccepted :
                  /\ (ok => k = 1)
                  /\ handlers' = [handlers EXCEPT ![s] =
                       [h EXCEPT !.pc = "done", !.admit = "no",
                                 !.chk = Observe(request_counts, u, now),
                                 !.rem = <<r.minute, r.day>>,
                                 !.sends =
                                    IF ok
                                    THEN Append(h.sends,
                                           limit_reply(r.minute, r.day, TRUE))
                                    ELSE backup_safe_send_message(
                                           Append(h.sends,
                                             limit_reply(r.minute, r.day, FALSE)),
                                           "voice_error", NoTs, NoTs, k)]]
        /\ SendFaultsBounded(s)'
        /\ UNCHANGED <<config, now, ticks, user_sessions, session_kind,
                       nextMsg, turn_n, add_log, last_add>>

(* what recognition gives: nothing, an exception, a simple question about   *)
(* the date or time, or any other text                                      *)
BackupRecognitions == {"none", "raised", "simple_time", "text"}

(* lines 741-853: the audio is fetched and recognised; a simple question    *)
(* about the time is recorded and answered from the clock, without the      *)
(* language model                                                           *)
backup_handle_voice_transcribe(s) ==
    LET h == handlers[s]
        u == h.user
        r == get_remaining_requests(add_request(request_counts, u, now), u, now)
    IN  /\ variant = "backup" /\ h.kind = "voice" /\ h.pc = "stt"
        /\ \E t \in BackupRecognitions, k \in FirstAccepted :
             CASE t = "text" ->
                    /\ k = 1
                    /\ handlers' = [handlers EXCEPT ![s] =
                          [h EXCEPT !.pc = "llm", !.stt = t]]
                    /\ UNCHANGED <<request_counts, add_log, last_add>>
               [] t = "simple_time" ->
                    /\ request_counts' = r.rc
                    /\ add_log' = Append(add_log, [user |-> h.user, msg |-> h.msg])
                    /\ last_add' = AddRecord(request_counts, u, now)
                    /\ handlers' = [handlers EXCEPT ![s] =
                          [h EXCEPT !.pc = "done", !.recorded = h.recorded + 1,
                                    !.stt = t,
                                    !.rem = <<r.minute, r.day>>,
                                    !.sends = backup_safe_send_message(h.sends,
                                         "datetime", r.minute, r.day, k)]]
               [] OTHER ->
                    /\ handlers' = [handlers EXCEPT ![s] =
                          [h EXCEPT !.pc = "done",
                                    !.stt = t,
                                    !.sends = backup_safe_send_message(h.sends,
                                         IF t = "none" THEN "hint" ELSE "voice_error",
                                         NoTs, NoTs, k)]]
                    /\ UNCHANGED <<request_counts, add_log, last_add>>
        /\ SendFaultsBounded(s)'
        /\ UNCHANGED <<config, now, ticks, user_sessions, session_kind,
                       nextMsg, turn_n>>

(* lines 855-912: call_gemini_api returns; a response is recorded and sent  *)
(* with the remainders; voice turns are not stored in the session           *)
backup_handle_voice_llm(s) ==
    LET h == handlers[s]
        u == h.user
    IN  /\ variant = "backup" /\ h.kind = "voice" /\ h.pc = "llm"
        /\ \E o \in Outcomes, k \in FirstAccepted :
             LET resp == backup_call_gemini_api(o)
                 r == get_remaining_requests(add_request(request_counts, u, now), u, now)
                 g == [h EXCEPT !.pc = "done",
                                !.llm = Answer(o),
                                !.resp = resp]
             IN  IF Truthy(resp)
                 THEN /\ request_counts' = r.rc
                      /\ add_log' = Append(add_log, [user |-> h.user, msg |-> h.msg])
                      /\ last_add' = AddRecord(request_counts, u, now)
                      /\ handlers' = [handlers EXCEPT ![s] =
                             [g EXCEPT !.recorded = h.recorded + 1,
                                       !.rem = <<r.minute, r.day>>,
                                       !.sends = backup_safe_send_message(h.sends,
                                            "model", r.minute, r.day, k)]]
                 ELSE /\ handlers' = [handlers EXCEPT ![s] =
                             [g EXCEPT !.sends = backup_safe_send_message(h.sends,
                                            "fallback", NoTs, NoTs, k)]]
                      /\ UNCHANGED <<request_counts, add_log, last_add>>
        /\ SendFaultsBounded(s)'
        /\ UNCHANGED <<config, now, ticks, user_sessions, session_kind,
                       nextMsg, turn_n>>

(* --------------------------------------------------------- commands ---- *)
(* what the handlers of commands leave alone *)
untouched == <<variant, voice_features, query, looked, prompt, response_len,
               outbox, voice_reply>>

(* a command that empties every session *)
clear_all_sessions(sessions, u) == [v \in DOMAIN sessions |-> <<>>]

(* user_sessions[user_id].clear() *)
clear_session(sessions, u) == [sessions EXCEPT ![u] = <<>>]

(* clear_command, main.py lines 224-228, main_backup.py lines 123-127 *)
clear_command(u) ==
    /\ nextMsg <= MaxMsgs
    /\ MayStart
    /\ user_sessions' = clear_session(user_sessions, u)
    /\ session_kind' = [session_kind EXCEPT ![u] = touched(@)]
    /\ nextMsg' = nextMsg + 1
    /\ last_cmd' = [name |-> "clear", user |-> u, msg |-> nextMsg,
                    had |-> Len(user_sessions[u])]
    /\ UNCHANGED <<untouched, registries, now, ticks, request_counts, handlers,
                   turn_n, add_log, last_add>>

(* limits_command, main.py lines 230-240 *)
limits_command(u) ==
    /\ nextMsg <= MaxMsgs
    /\ MayStart
    /\ request_counts' = get_remaining_requests(request_counts, u, now).rc
    /\ nextMsg' = nextMsg + 1
    /\ last_cmd' = [name |-> "limits", user |-> u, msg |-> nextMsg,
                    had |-> Len(user_sessions[u])]
    /\ UNCHANGED <<untouched, registries, now, ticks, user_sessions,
                   session_kind, handlers, turn_n, add_log, last_add>>

(* ------------------------------- main_backup.py: cleanup_old_data ---- *)
(* lines 1900-1922, run by the watchdog task: a session whose last turn is  *)
(* older than a day is deleted from the map                                 *)
(* a sweep that takes every session that has turns for old *)
any_session_stale(sess, t) == Len(sess) > 0

Stale(sess, t) ==
    /\ Len(sess) > 0
    /\ (IF sess[Len(sess)].ts = NoTs THEN t ELSE sess[Len(sess)].ts) < t - DAY_SECONDS

cleanup_old_data ==
    /\ variant = "backup"
    /\ \E u \in Users : Stale(user_sessions[u], now)
    /\ user_sessions' = [u \in Users |->
          IF Stale(user_sessions[u], now) THEN <<>> ELSE user_sessions[u]]
    /\ session_kind' = [u \in Users |->
          IF Stale(user_sessions[u], now) THEN "absent" ELSE session_kind[u]]
    /\ last_cmd' = [name |-> "cleanup", user |-> 0, msg |-> now, had |-> 0]
    /\ UNCHANGED <<untouched, registries, now, ticks, request_counts, handlers,
                   nextMsg, turn_n, add_log, last_add>>

(* --------------------------------------------------- error_handler ---- *)
(* An exception that leaves a handler reaches the error handler: main.py    *)
(* (lines 1462-1469) tries one reply and swallows its failure,              *)
(* main_backup.py (lines 1854-1874) only logs.                              *)
error_handler(s) ==
    LET h == handlers[s]
    IN  /\ h.pc = "raised"
        /\ IF variant = "main"
           THEN \E ok \in BOOLEAN :
                  handlers' = [handlers EXCEPT ![s] =
                    [h EXCEPT !.pc = "done",
                              !.sends = Append(h.sends,
                                   Reply("handler_error", NoTs, NoTs, ok))]]
           ELSE handlers' = [handlers EXCEPT ![s].pc = "done"]
        /\ SendFaultsBounded(s)'
        /\ UNCHANGED <<config, now, ticks, request_counts, user_sessions,
                       session_kind, nextMsg, turn_n, add_log, last_add>>

Next ==
    \/ Tick
    \/ \E u \in Senders, k \in Kinds : Arrive(u, k)
    \/ \E s \in Slots : handle_message_check(s)
    \/ \E s \in Slots : handle_message_append(s)
    \/ \E s \in Slots : handle_message_llm(s)
    \/ \E s \in Slots : handle_message_send(s)
    \/ \E s \in Slots : handle_photo_check(s)
    \/ \E s \in Slots : handle_photo_work(s)
    \/ \E s \in Slots : handle_voice_check(s)
    \/ \E s \in Slots : handle_voice_transcribe(s)
    \/ \E s \in Slots : handle_voice_llm(s)
    \/ \E s \in Slots : handle_voice_send(s)
    \/ \E s \in Slots : backup_handle_message_check(s)
    \/ \E s \in Slots : backup_handle_message_route(s)
    \/ \E s \in Slots : backup_handle_message_llm(s)
    \/ \E s \in Slots : backup_handle_photo_check(s)
    \/ \E s \in Slots : backup_handle_photo_append(s)
    \/ \E s \in Slots : backup_handle_photo_llm(s)
    \/ \E s \in Slots : backup_handle_voice_check(s)
    \/ \E s \in Slots : backup_handle_voice_transcribe(s)
    \/ \E s \in Slots : backup_handle_voice_llm(s)
    \/ \E u \in Senders : clear_command(u)
    \/ \E u \in Senders : limits_command(u)
    \/ cleanup_old_data
    \/ \E s \in Slots : error_handler(s)

Spec == Init /\ [][Next]_vars

(* ------------------------------------------------ users side by side ---- *)
(* Every user sends updates and commands; each starts with a few recorded   *)
(* requests and a few stored turns of their own.                            *)
SharedWindow(u) == InitWindow(u, u + 1)

SharedSession(v, u) ==
    [i \in 1..(2 * u) |->
        Turn(IF i % 2 = 1 THEN "user" ELSE "assistant", 0,
             IF v = "backup" THEN "parts" ELSE "content",
             IF v = "backup" THEN StartTime - MINUTE_SECONDS ELSE NoTs,
             100 * u + i)]

SharedInit ==
    /\ variant \in Variants
    /\ now = StartTime
    /\ ticks = 0
    /\ request_counts = [u \in Users |-> SharedWindow(u)]
    /\ user_sessions = [u \in Users |-> SharedSession(variant, u)]
    /\ session_kind =
          [u \in Users |-> IF variant = "backup" THEN "list" ELSE "deque"]
    /\ turn_n = 1
    /\ handlers = [s \in Slots |-> Idle]
    /\ nextMsg = 1
    /\ add_log = <<>>
    /\ last_add = NoAdd
    /\ voice_features = TRUE
    /\ query = {}
    /\ looked = NoLook
    /\ prompt = <<>>
    /\ response_len = 0
    /\ outbox = <<>>
    /\ voice_reply = NoVoice
    /\ RegistriesInit

SharedNext ==
    \/ Tick
    \/ \E u \in Users, k \in Kinds : Arrive(u, k)
    \/ \E s \in Slots : handle_message_check(s)
    \/ \E s \in Slots : handle_message_append(s)
    \/ \E s \in Slots : handle_message_llm(s)
    \/ \E s \in Slots : handle_message_send(s)
    \/ \E s \in Slots : handle_photo_check(s)
    \/ \E s \in Slots : handle_photo_work(s)
    \/ \E s \in Slots : handle_voice_check(s)
    \/ \E s \in Slots : handle_voice_transcribe(s)
    \/ \E s \in Slots : handle_voice_llm(s)
    \/ \E s \in Slots : handle_voice_send(s)
    \/ \E s \in Slots : backup_handle_message_check(s)
    \/ \E s \in Slots : backup_handle_message_route(s)
    \/ \E s \in Slots : backup_handle_message_llm(s)
    \/ \E s \in Slots : backup_handle_photo_check(s)
    \/ \E s \in Slots : backup_handle_photo_append(s)
    \/ \E s \in Slots : backup_handle_photo_llm(s)
    \/ \E s \in Slots : backup_handle_voice_check(s)
    \/ \E s \in Slots : backup_handle_voice_transcribe(s)
    \/ \E s \in Slots : backup_handle_voice_llm(s)
    \/ \E u \in Users : clear_command(u)
    \/ \E u \in Users : limits_command(u)
    \/ cleanup_old_data
    \/ \E s \in Slots : error_handler(s)

SharedSpec == SharedInit /\ [][SharedNext]_vars

(* --------------------------------------------- InformationAggregator ---- *)
(* A text is the sequence of the blocks it is made of; each block tells     *)
(* which source wrote it and whether it is that source's findings, its      *)
(* "nothing found" message or its error message.  No text is <<>>.          *)
Block(src, kind) == <<[src |-> src, kind |-> kind]>>

(* how a source's request ends *)
SourceOutcomes == {"found", "nothing", "raised"}

(* a source that answers a failure with a message of its own *)
Telling(src, o) ==
    IF o = "found" THEN Block(src, "found")
    ELSE IF o = "nothing" THEN Block(src, "notfound")
    ELSE Block(src, "error")

(* a source that answers a failure with None *)
Silent(src, o) == IF o = "found" THEN Block(src, "found") ELSE <<>>

(* main.py lines 1011-1139 *)
search_duckduckgo(o) == Telling("search", o)
search_currency_rates(o) ==
    IF o = "found" THEN Block("currency", "found") ELSE Block("currency", "notfound")
search_weather_data(o) == search_duckduckgo(o)
search_news(o, o2) ==
    IF o = "found" THEN Block("news", "found")
    ELSE IF o = "nothing" THEN search_duckduckgo(o2)
    ELSE Block("news", "error")
handle_age_query(o) == Telling("age", o)

(* main.py get_current_data, lines 991-1009; o is the outcome of the first  *)
(* source the branch asks, o2 of the search the news branch falls back to   *)
get_current_data(q, o, o2) ==
    CASE get_current_data_branch(q) = "News"     -> search_news(o, o2)
      [] get_current_data_branch(q) = "Currency" -> search_currency_rates(o)
      [] get_current_data_branch(q) = "Weather"  -> search_weather_data(o)
      [] get_current_data_branch(q) = "Age"      -> handle_age_query(o)
      [] OTHER                                   -> search_duckduckgo(o)

(* main_backup.py: search_currency_rates (919-991), search_weather_data     *)
(* (1636-1852), search_news (1251-1461), search_wikipedia (1138-1217),      *)
(* search_duckduckgo (1005-1136)                                            *)
backup_search_currency_rates(o) == Silent("currency", o)
backup_search_weather_data(o) == Telling("weather", o)
backup_search_news(o) == Telling("news", o)
backup_search_wikipedia(q, o) ==
    IF is_currency_query(q) THEN <<>> ELSE Silent("wikipedia", o)
backup_search_duckduckgo(q, o) ==
    CASE search_duckduckgo_branch(q) = "Currency" -> backup_search_currency_rates(o)
      [] search_duckduckgo_branch(q) = "Weather"  -> backup_search_weather_data(o)
      [] OTHER                                    -> Silent("search", o)

(* main_backup.py get_current_data, lines 1563-1622: the date and time      *)
(* block, then what each of the three sources returned, if anything          *)
backup_get_current_data(q, o1, o2, o3) ==
    Block("datetime", "found")
        \o backup_search_duckduckgo(q, o1)
        \o backup_search_wikipedia(q, o2)
        \o backup_search_news(o3)

(* main_backup.py handle_message, lines 388-422: the text the branch sends  *)
backup_route_text(q, o1, o2, o3) ==
    CASE backup_route(q, o1 = "found") = "Weather"  -> backup_search_weather_data(o1)
      [] backup_route(q, o1 = "found") = "News"     -> backup_search_news(o1)
      [] backup_route(q, o1 = "found") = "Currency" -> backup_search_currency_rates(o1)
      [] backup_route(q, o1 = "found") = "GeneralSearch" ->
             backup_get_current_data(q, o1, o2, o3)
      [] OTHER -> <<>>

(* The categories whose keyword tests the text passes at a place where the  *)
(* dispatch is made.                                                        *)
get_current_data_matches(q) ==
    {c \in {"News", "Currency", "Weather"} :
        \/ c = "News" /\ Hits(q, {"novosti"})
        \/ c = "Currency" /\ Hits(q, {"kurs_dollara"})
        \/ c = "Weather" /\ Hits(q, {"pogoda"})} \cup {"GeneralSearch"}

backup_matches(q) ==
    {c \in {"News", "Currency", "Weather", "GeneralSearch"} :
        \/ c = "News" /\ (is_politics_query(q) \/ has_news_keywords(q))
        \/ c = "Currency" /\ is_currency_query(q)
        \/ c = "Weather" /\ is_weather_query(q)
        \/ c = "GeneralSearch" /\ backup_needs_current_data(q)}

search_duckduckgo_matches(q) ==
    {c \in {"Currency", "Weather"} :
        \/ c = "Currency" /\ is_currency_query(q)
        \/ c = "Weather" /\ is_weather_query(q)} \cup {"GeneralSearch"}

(* the result of one application: where, whether current data is needed,   *)
(* the categories matched, the category acted on, the outcomes of the       *)
(* sources and the text produced                                            *)
Looked(site, needs, matches, category, outs, asked, text) ==
    [site |-> site, needs |-> needs, matches |-> matches, category |-> category,
     outs |-> outs, asked |-> asked, text |-> text]

(* the outcomes of the sources that get_current_data really asks: main.py   *)
(* asks the search only after the news source found nothing, main_backup.py *)
(* skips Wikipedia for a currency query                                     *)
get_current_data_asked(q, o, o2) ==
    IF get_current_data_branch(q) = "News" /\ o = "nothing" THEN <<o, o2>> ELSE <<o>>

backup_get_current_data_asked(q, o1, o2, o3) ==
    <<o1>> \o (IF is_currency_query(q) THEN <<>> ELSE <<o2>>) \o <<o3>>

(* main.py: needs_current_data and get_current_data applied to query *)
classify_and_fetch ==
    /\ variant = "main" /\ looked = NoLook
    /\ \E o, o2 \in SourceOutcomes :
         looked' = Looked("get_current_data", needs_current_data(query),
                          get_current_data_matches(query),
                          get_current_data_branch(query), <<o, o2>>,
                          get_current_data_asked(query, o, o2),
                          get_current_data(query, o, o2))
    /\ UNCHANGED <<variant, voice_features, registries, last_cmd, voice_reply, query, prompt, response_len,
                   outbox, now, ticks,
                   request_counts, user_sessions, session_kind, handlers,
                   nextMsg, turn_n, add_log, last_add>>

(* main_backup.py: the routing of handle_message applied to query *)
backup_classify_and_route ==
    /\ variant = "backup" /\ looked = NoLook
    /\ \E o1, o2, o3 \in SourceOutcomes :
         looked' = Looked("handle_message", backup_needs_current_data(query),
                          backup_matches(query),
                          backup_route(query, o1 = "found"), <<o1, o2, o3>>,
                          IF backup_route(query, o1 = "found") = "GeneralSearch"
                          THEN backup_get_current_data_asked(query, o1, o2, o3)
                          ELSE <<o1>>,
                          backup_route_text(query, o1, o2, o3))
    /\ UNCHANGED <<variant, voice_features, registries, last_cmd, voice_reply, query, prompt, response_len,
                   outbox, now, ticks,
                   request_counts, user_sessions, session_kind, handlers,
                   nextMsg, turn_n, add_log, last_add>>

(* main_backup.py: get_current_data applied to query, as handle_voice       *)
(* (line 822) does whenever needs_current_data holds                        *)
backup_fetch ==
    /\ variant = "backup" /\ looked = NoLook
    /\ backup_needs_current_data(query)
    /\ \E o1, o2, o3 \in SourceOutcomes :
         looked' = Looked("get_current_data", TRUE,
                          search_duckduckgo_matches(query),
                          search_duckduckgo_branch(query), <<o1, o2, o3>>,
                          backup_get_current_data_asked(query, o1, o2, o3),
                          backup_get_current_data(query, o1, o2, o3))
    /\ UNCHANGED <<variant, voice_features, registries, last_cmd, voice_reply, query, prompt, response_len,
                   outbox, now, ticks,
                   request_counts, user_sessions, session_kind, handlers,
                   nextMsg, turn_n, add_log, last_add>>

LookupInit ==
    /\ variant \in Variants
    /\ voice_features = TRUE
    /\ query \in SUBSET Vocabulary
    /\ looked = NoLook
    /\ now = StartTime
    /\ ticks = 0
    /\ request_counts = [u \in Users |-> [minute |-> <<>>, day |-> <<>>]]
    /\ user_sessions = [u \in Users |-> <<>>]
    /\ session_kind = [u \in Users |-> "absent"]
    /\ handlers = [s \in Slots |-> Idle]
    /\ nextMsg = 1
    /\ turn_n = 1
    /\ add_log = <<>>
    /\ last_add = NoAdd
    /\ prompt = <<>>
    /\ response_len = 0
    /\ outbox = <<>>
    /\ voice_reply = NoVoice
    /\ RegistriesInit

LookupNext == classify_and_fetch \/ backup_classify_and_route \/ backup_fetch

LookupSpec == LookupInit /\ [][LookupNext]_vars

(* ------------------------------------------------- PromptComposer ---- *)
(* The request body of a text message, built from the session and the       *)
(* message: handle_message appends the user turn and passes the session,    *)
(* call_gemini_api turns the messages into the parts of one content.         *)
MaxHistory == 12

(* the phrases that contain one of main.py's age_related_keywords as a      *)
(* substring: "skolko let" contains "let", "pogoda" contains "goda"         *)
age_related_keywords == {"skolko_let", "pogoda"}

is_age_query(q) == Hits(q, age_related_keywords)

Part(role, msg, n) == [role |-> role, msg |-> msg, n |-> n]

(* the system message call_gemini_api puts first for an age query *)
system_message == Part("system", 0, 0)

(* main.py call_gemini_api, lines 509-539: messages is the passed list, q   *)
(* the text of its last element                                             *)
call_gemini_api_parts(messages, q) ==
    (IF is_age_query(q) THEN <<system_message>> ELSE <<>>)
        \o [i \in 1..Len(messages) |->
               Part(messages[i].role, messages[i].msg, messages[i].n)]

(* main_backup.py handle_message, lines 441-447, and call_gemini_api, lines *)
(* 252-256: one part per stored turn                                        *)
backup_call_gemini_api_parts(sess) ==
    [i \in 1..Len(sess) |-> Part(sess[i].role, sess[i].msg, sess[i].n)]

(* main.py handle_message, lines 918-923, for the message numbered 1 *)
compose_prompt ==
    /\ variant = "main" /\ prompt = <<>>
    /\ LET sess == session_append(user_sessions[1], session_kind[1],
                        Turn("user", 1, "content", NoTs, turn_n))
       IN  /\ user_sessions' = [user_sessions EXCEPT ![1] = sess]
           /\ session_kind' = [session_kind EXCEPT ![1] = touched(@)]
           /\ turn_n' = turn_n + 1
           /\ prompt' = call_gemini_api_parts(sess, query)
    /\ UNCHANGED <<variant, voice_features, registries, last_cmd, voice_reply, query, looked, response_len,
                   outbox, now, ticks, request_counts, handlers, nextMsg,
                   add_log, last_add>>

(* main_backup.py handle_message, lines 427-452, for the message numbered 1 *)
(* when no branch of the routing has answered it                            *)
backup_compose_prompt ==
    /\ variant = "backup" /\ prompt = <<>>
    /\ \E currency \in BOOLEAN : backup_route(query, currency) = "None"
    /\ LET sess == Append(user_sessions[1],
                        Turn("user", 1, "parts", now, turn_n))
       IN  /\ user_sessions' = [user_sessions EXCEPT ![1] = sess]
           /\ session_kind' = [session_kind EXCEPT ![1] = "list"]
           /\ turn_n' = turn_n + 1
           /\ prompt' = backup_call_gemini_api_parts(sess)
    /\ UNCHANGED <<variant, voice_features, registries, last_cmd, voice_reply, query, looked, response_len,
                   outbox, now, ticks, request_counts, handlers, nextMsg,
                   add_log, last_add>>

PromptInit ==
    /\ variant \in Variants
    /\ voice_features = TRUE
    /\ query \in SUBSET Vocabulary
    /\ looked = NoLook
    /\ prompt = <<>>
    /\ response_len = 0
    /\ outbox = <<>>
    /\ voice_reply = NoVoice
    /\ RegistriesInit
    /\ now = StartTime
    /\ ticks = 0
    /\ request_counts = [u \in Users |-> [minute |-> <<>>, day |-> <<>>]]
    /\ \E h \in 0..MaxHistory :
         /\ user_sessions =
              [u \in Users |-> IF u = 1 THEN InitSession(variant, h) ELSE <<>>]
         /\ session_kind =
              [u \in Users |-> IF u = 1 /\ h > 0
                               THEN (IF variant = "backup" THEN "list" ELSE "deque")
                               ELSE "absent"]
         /\ turn_n = h + 1
    /\ handlers = [s \in Slots |-> Idle]
    /\ nextMsg = 1
    /\ add_log = <<>>
    /\ last_add = NoAdd

PromptNext == compose_prompt \/ backup_compose_prompt

PromptSpec == PromptInit /\ [][PromptNext]_vars

(* --------------------------------------------------- outbound texts ---- *)
(* The texts that the reply to a language-model response of response_len    *)
(* characters hands to reply_text, by their lengths (Python len).           *)
MaxResponseLen == 8200

(* the chunk size of main.py safe_send_message *)
MaxMessageLen == 4096

Digits(n) == IF n < 10 THEN 1 ELSE IF n < 100 THEN 2 ELSE 3

Sent(len, ok) == [len |-> len, ok |-> ok]

(* the counts that a reply can state after add_request *)
ShownMinute == {0, MINUTE_LIMIT - 1}
ShownDay == {0, MINUTE_LIMIT, DAILY_LIMIT - 1}

(* main.py line 939: the two line breaks and the counts line appended to    *)
(* the response of a text message                                           *)
counts_len(rm, rd) == 49 + Digits(rm) + Digits(rd)

(* main.py lines 1335-1337 and 1346-1349: the speech balloon, the response  *)
(* and the counts line, with the warning line when synthesis failed         *)
voice_text_len(len, rm, rd, warned) ==
    2 + len + (IF warned THEN 87 ELSE 49) + Digits(rm) + Digits(rd)

(* response[i:i+4096] for i in range(0, len(response), 4096) *)
chunk_lens(len) ==
    [i \in 1..((len + MaxMessageLen - 1) \div MaxMessageLen) |->
        IF i * MaxMessageLen <= len THEN MaxMessageLen
        ELSE len - (i - 1) * MaxMessageLen]

(* main.py safe_send_message, lines 1141-1153: the chunks of a long text or *)
(* the text itself; k is the first send the transport refuses (0 when it    *)
(* accepts all), after which the 30 characters of the error text are sent   *)
safe_send_message_lens(len, k) ==
    LET texts == IF len > MaxMessageLen THEN chunk_lens(len) ELSE <<len>>
    IN  IF k = 0 \/ k > Len(texts)
        THEN [i \in 1..Len(texts) |-> Sent(texts[i], TRUE)]
        ELSE [i \in 1..k |-> Sent(texts[i], i < k)] \o <<Sent(30, TRUE)>>

(* main_backup.py safe_send_message, lines 503-554, given the counts: the   *)
(* response with the counts line (59 characters with its emoji, 57 without),*)
(* the response alone, the response with a backslash before each of its     *)
(* dots, the 68 characters of the fixed text; k is the first attempt the    *)
(* transport accepts                                                        *)
backup_attempt_len(len, rm, rd, dots, i) ==
    CASE i = 1 -> len + 55 + Digits(rm) + Digits(rd)
      [] i = 2 -> len + 53 + Digits(rm) + Digits(rd)
      [] i = 3 -> len
      [] i = 4 -> len + dots
      [] OTHER -> 68

backup_safe_send_message_lens(len, rm, rd, dots, k) ==
    [i \in 1..(IF k > SendAttempts THEN SendAttempts ELSE k) |->
        Sent(backup_attempt_len(len, rm, rd, dots, i), i = k)]

(* main.py handle_message, lines 939-940 *)
send_text_response ==
    /\ variant = "main" /\ outbox = <<>>
    /\ \E rm \in ShownMinute, rd \in ShownDay, k \in 0..3 :
         outbox' = safe_send_message_lens(response_len + counts_len(rm, rd), k)
    /\ UNCHANGED <<variant, voice_features, registries, last_cmd, voice_reply, query, looked, prompt, response_len,
                   now, ticks, request_counts, user_sessions, session_kind,
                   handlers, nextMsg, turn_n, add_log, last_add>>

(* main.py handle_voice, lines 1335-1337 (text_to_speech returned None for  *)
(* the single part) and lines 1346-1349 (the selected engine is             *)
(* unavailable).  smart_split_text returns a single part for a cleaned text *)
(* of at most 200 characters and for a longer one without a space, a comma  *)
(* or a sentence end, and the reply carries the uncleaned response.         *)
send_voice_text_response ==
    /\ variant = "main" /\ outbox = <<>>
    /\ \E rm \in ShownMinute, rd \in ShownDay, warned \in BOOLEAN :
         outbox' = <<Sent(voice_text_len(response_len, rm, rd, warned), TRUE)>>
    /\ UNCHANGED <<variant, voice_features, registries, last_cmd, voice_reply, query, looked, prompt, response_len,
                   now, ticks, request_counts, user_sessions, session_kind,
                   handlers, nextMsg, turn_n, add_log, last_add>>

(* main_backup.py handle_message, line 467 *)
backup_send_text_response ==
    /\ variant = "backup" /\ outbox = <<>>
    /\ \E rm \in ShownMinute, rd \in ShownDay, dots \in 0..1, k \in FirstAccepted :
         outbox' = backup_safe_send_message_lens(response_len, rm, rd, dots, k)
    /\ UNCHANGED <<variant, voice_features, registries, last_cmd, voice_reply, query, looked, prompt, response_len,
                   now, ticks, request_counts, user_sessions, session_kind,
                   handlers, nextMsg, turn_n, add_log, last_add>>

SendInit ==
    /\ variant \in Variants
    /\ voice_features = TRUE
    /\ query = {}
    /\ looked = NoLook
    /\ prompt = <<>>
    /\ response_len \in 1..MaxResponseLen
    /\ outbox = <<>>
    /\ voice_reply = NoVoice
    /\ RegistriesInit
    /\ now = StartTime
    /\ ticks = 0
    /\ request_counts = [u \in Users |-> [minute |-> <<>>, day |-> <<>>]]
    /\ user_sessions = [u \in Users |-> <<>>]
    /\ session_kind = [u \in Users |-> "absent"]
    /\ handlers = [s \in Slots |-> Idle]
    /\ nextMsg = 1
    /\ turn_n = 1
    /\ add_log = <<>>
    /\ last_add = NoAdd

SendNext ==
    send_text_response \/ send_voice_text_response \/ backup_send_text_response

SendSpec == SendInit /\ [][SendNext]_vars

(* ------------------------------------------------- answer by voice ---- *)
(* main.py handle_voice, lines 1309-1343, and send_voice_parts: the answer  *)
(* to the voice message numbered 1 once the language model has returned a   *)
(* response and the selected engine is available.  smart_split_text has     *)
(* cut the cleaned response into total parts (never none).                  *)
MaxParts == 3

(* text_to_speech returns the audio or None; it raises nothing (line 678)   *)
Synthesis == {"data", "none"}

Handed(part, what, ok) == [part |-> part, what |-> what, ok |-> ok]

(* a failed synthesis answered by no text at all *)
no_voice_reply(i, ok) == <<>>

(* lines 1333-1337 and 1413-1419: the text of the part, with the warning,   *)
(* sent in place of the voice that could not be synthesised                 *)
synthesis_failed_reply(i, ok) == <<Handed(i, "text_warned", ok)>>

(* send_voice_parts, lines 1386-1424, for part i: the voice or the text     *)
(* with the warning, and when that send raises the text alone (line 1424)   *)
part_replies(i, t, ok1, ok2) ==
    (IF t = "data" THEN <<Handed(i, "voice", ok1)>>
     ELSE synthesis_failed_reply(i, ok1))
        \o (IF ok1 THEN <<>> ELSE <<Handed(i, "text_plain", ok2)>>)

(* lines 1322-1338: the response is one part *)
voice_single_part ==
    LET v == voice_reply
    IN  /\ v.pc = "start" /\ v.total = 1
        /\ \E t \in Synthesis, ok \in BOOLEAN :
             /\ voice_reply' =
                  [v EXCEPT !.pc = (IF ok THEN "done" ELSE "raised"),
                            !.i = 2,
                            !.tts = Append(@, t),
                            !.sent = @ \o (IF t = "data"
                                           THEN <<Handed(1, "voice", ok)>>
                                           ELSE synthesis_failed_reply(1, ok))]
             /\ IF ok
                THEN /\ user_sessions' = [user_sessions EXCEPT ![1] =
                           session_append(@, session_kind[1],
                               Turn("assistant", 1, "content", NoTs, turn_n))]
                     /\ turn_n' = turn_n + 1
                ELSE UNCHANGED <<user_sessions, turn_n>>
        /\ UNCHANGED <<variant, voice_features, registries, last_cmd, query, looked, prompt,
                       response_len, outbox, now, ticks, request_counts,
                       session_kind, handlers, nextMsg, add_log, last_add>>

(* send_voice_parts, one turn of the loop of lines 1386-1424 *)
voice_part ==
    LET v == voice_reply
    IN  /\ v.pc = "start" /\ v.total > 1 /\ v.i <= v.total
        /\ \E t \in Synthesis, ok1, ok2 \in BOOLEAN :
             voice_reply' =
                 [v EXCEPT !.pc = (IF ok1 \/ ok2 THEN "start" ELSE "raised"),
                           !.i = @ + 1,
                           !.tts = Append(@, t),
                           !.sent = @ \o part_replies(v.i, t, ok1, ok2)]
        /\ UNCHANGED <<variant, voice_features, registries, last_cmd, query, looked, prompt,
                       response_len, outbox, now, ticks, request_counts,
                       user_sessions, session_kind, handlers, nextMsg, turn_n,
                       add_log, last_add>>

(* lines 1341-1343: send_voice_parts has returned *)
voice_parts_done ==
    LET v == voice_reply
    IN  /\ v.pc = "start" /\ v.total > 1 /\ v.i > v.total
        /\ voice_reply' = [v EXCEPT !.pc = "done"]
        /\ user_sessions' = [user_sessions EXCEPT ![1] =
              session_append(@, session_kind[1],
                  Turn("assistant", 1, "content", NoTs, turn_n))]
        /\ turn_n' = turn_n + 1
        /\ UNCHANGED <<variant, voice_features, registries, last_cmd, query, looked, prompt,
                       response_len, outbox, now, ticks, request_counts,
                       session_kind, handlers, nextMsg, add_log, last_add>>

(* lines 1366-1369: the except clause of handle_voice *)
voice_except ==
    LET v == voice_reply
    IN  /\ v.pc = "raised"
        /\ \E ok \in BOOLEAN :
             voice_reply' = [v EXCEPT !.pc = "done",
                                      !.sent = Append(@, Handed(0, "voice_error", ok))]
        /\ UNCHANGED <<variant, voice_features, registries, last_cmd, query, looked, prompt,
                       response_len, outbox, now, ticks, request_counts,
                       user_sessions, session_kind, handlers, nextMsg, turn_n,
                       add_log, last_add>>

(* the sessions a voice message can find: empty, one turn short of full, full *)
VoiceHistories == {0, SESSION_MAXLEN - 2, SESSION_MAXLEN - 1}

VoiceInit ==
    /\ variant = "main"
    /\ voice_features = TRUE
    /\ query = {}
    /\ looked = NoLook
    /\ prompt = <<>>
    /\ response_len = 0
    /\ outbox = <<>>
    /\ \E n \in 1..MaxParts :
         voice_reply = [pc |-> "start", total |-> n, i |-> 1, tts |-> <<>>,
                        sent |-> <<>>]
    /\ RegistriesInit
    /\ now = StartTime
    /\ ticks = 0
    /\ request_counts = [u \in Users |-> [minute |-> <<>>, day |-> <<>>]]
    /\ \E h \in VoiceHistories :
         /\ user_sessions =
              [u \in Users |->
                  IF u = 1
                  THEN Append(InitSession("main", h),
                              Turn("user", 1, "content", NoTs, h + 1))
                  ELSE <<>>]
         /\ turn_n = h + 2
    /\ session_kind = [u \in Users |-> IF u = 1 THEN "deque" ELSE "absent"]
    /\ handlers = [s \in Slots |-> Idle]
    /\ nextMsg = 1
    /\ add_log = <<>>
    /\ last_add = NoAdd

VoiceNext ==
    voice_single_part \/ voice_part \/ voice_parts_done \/ voice_except

VoiceSpec == VoiceInit /\ [][VoiceNext]_vars

(* ------------------------------------------------- news article count ---- *)
(* The number of articles search_news asks the news client for, from the    *)
(* digit runs of the query.                                                 *)
MaxNumber == 51
MaxNumbers == 2

Min2(a, b) == IF a < b THEN a ELSE b

RECURSIVE MaxOf(_)
MaxOf(seq) ==
    IF Len(seq) = 1 THEN seq[1]
    ELSE IF seq[1] > MaxOf(Tail(seq)) THEN seq[1] ELSE MaxOf(Tail(seq))

(* main.py lines 1016-1018: re.findall(r'\d+', query) finds every digit run, *)
(* the first one is taken and capped at 50                                  *)
news_count(nums) ==
    Min2(IF nums # <<>> THEN nums[1].n ELSE 10, 50)

(* main_backup.py extract_numbers_from_query, lines 1245-1249: the digit    *)
(* runs between word boundaries whose value is above 0                      *)
RECURSIVE extract_numbers_from_query(_)
extract_numbers_from_query(nums) ==
    IF nums = <<>> THEN <<>>
    ELSE (IF Head(nums).bare /\ Head(nums).n > 0 THEN <<Head(nums).n>>
          ELSE <<>>) \o extract_numbers_from_query(Tail(nums))

(* main_backup.py lines 1260-1265: the largest number, capped at 50 *)
max_news(nums) ==
    LET found == extract_numbers_from_query(nums)
    IN  IF found # <<>> THEN Min2(MaxOf(found), 50) ELSE 10

(* main.py search_news, lines 1014-1025, with a news client: one request *)
search_news_request ==
    /\ variant = "main" /\ page_sizes = <<>>
    /\ page_sizes' = <<news_count(numbers)>>
    /\ UNCHANGED <<variant, voice_features, settings, deliveries, numbers,
                   last_cmd, query,
                   looked, prompt, response_len, outbox, voice_reply, now,
                   ticks, request_counts, user_sessions, session_kind, handlers,
                   nextMsg, turn_n, add_log, last_add>>

(* main_backup.py search_news, lines 1298-1315, with a news client: the top *)
(* headlines, at most 20 of them, and when totalResults is below max_news   *)
(* everything as well                                                       *)
backup_search_news_request ==
    /\ variant = "backup" /\ page_sizes = <<>>
    /\ \E enough \in BOOLEAN :
         page_sizes' = <<Min2(max_news(numbers), 20)>>
                          \o (IF enough THEN <<>> ELSE <<max_news(numbers)>>)
    /\ UNCHANGED <<variant, voice_features, settings, deliveries, numbers,
                   last_cmd, query,
                   looked, prompt, response_len, outbox, voice_reply, now,
                   ticks, request_counts, user_sessions, session_kind, handlers,
                   nextMsg, turn_n, add_log, last_add>>

NewsInit ==
    /\ variant \in Variants
    /\ voice_features = TRUE
    /\ query = {"novosti"}
    /\ looked = NoLook
    /\ prompt = <<>>
    /\ response_len = 0
    /\ outbox = <<>>
    /\ voice_reply = NoVoice
    /\ SettingsInit
    /\ NoDeliveries
    /\ \E k \in 0..MaxNumbers :
         numbers \in [1..k -> [n : 0..MaxNumber, bare : BOOLEAN]]
    /\ page_sizes = <<>>
    /\ now = StartTime
    /\ ticks = 0
    /\ request_counts = [u \in Users |-> [minute |-> <<>>, day |-> <<>>]]
    /\ user_sessions = [u \in Users |-> <<>>]
    /\ session_kind = [u \in Users |-> "absent"]
    /\ handlers = [s \in Slots |-> Idle]
    /\ nextMsg = 1
    /\ turn_n = 1
    /\ add_log = <<>>
    /\ last_add = NoAdd

NewsNext == search_news_request \/ backup_search_news_request

NewsSpec == NewsInit /\ [][NewsNext]_vars

(* ------------------------------------------ main.py: voice engines ---- *)
MaxCommands == 3

GoogleEngines == {"gtts", "gtts_slow"}
PiperEngines == {"piper_dmitri", "piper_ruslan", "piper_pavel", "piper_irina",
                 "piper_anna", "piper_elena", "piper_arina"}
YandexEngines == {"yandex_jane", "yandex_alena", "yandex_filipp"}
EngineIds == GoogleEngines \cup PiperEngines \cup YandexEngines

(* lines 72-155: the dict initialize_voice_engines builds *)
initialize_voice_engines(vf, piper) ==
    [e \in EngineIds |-> IF e \in PiperEngines THEN piper ELSE vf]

(* lines 58 and 153-155: what the default factory of voice_engine_settings  *)
(* returns                                                                  *)
default_engine(piper) == IF piper THEN "piper_irina" ELSE "gtts"

(* d.get(user_id, default) *)
setting_get(d, u, default) == IF d[u] = "absent" THEN default ELSE d[u]

(* d[user_id] on a defaultdict: a missing key is stored with the default *)
setting_read(d, u, default) ==
    [d |-> [d EXCEPT ![u] = setting_get(d, u, default)],
     value |-> setting_get(d, u, default)]

(* text_to_speech, lines 629-676: the engine that synthesises *)
text_to_speech_engine(ves, u, piper, known) ==
    LET engine == setting_get(ves, u, "gtts")
    IN  CASE engine \in GoogleEngines -> engine
          [] engine \in PiperEngines /\ piper ->
                 IF engine \in DOMAIN known THEN engine ELSE "piper_dmitri"
          [] engine \in YandexEngines ->
                 IF engine \in DOMAIN known THEN engine ELSE "gtts"
          [] OTHER -> "gtts"

Command(name, u, reported, keyerror, engine) ==
    [name |-> name, user |-> u,
     n |-> IF last_cmd = NoCmd THEN 1 ELSE last_cmd.n + 1,
     reported |-> reported, keyerror |-> keyerror, engine |-> engine]

MayHandle ==
    /\ startup # "import"
    /\ (IF last_cmd = NoCmd THEN TRUE ELSE last_cmd.n < MaxCommands)

(* main(), lines 1634-1643 with setup_piper_if_needed, lines 1529-1617 *)
main_startup ==
    /\ startup = "import"
    /\ \E path \in {"local", "render_ok", "render_failed"} :
         /\ startup' = path
         /\ PIPER_AVAILABLE' = (path = "render_ok")
         /\ IF path = "render_failed"
            THEN UNCHANGED <<VOICE_ENGINES, DEFAULT_VOICE_ENGINE,
                             voice_engine_settings>>
            ELSE /\ VOICE_ENGINES' =
                      initialize_voice_engines(voice_features, PIPER_AVAILABLE')
                 /\ DEFAULT_VOICE_ENGINE' = default_engine(PIPER_AVAILABLE')
                 /\ voice_engine_settings' = [u \in Users |-> "absent"]
    /\ UNCHANGED <<variant, voice_features, voice_settings, last_cmd,
                   deliveries, numbers, page_sizes, query, looked, prompt,
                   response_len, outbox, voice_reply, now, ticks,
                   request_counts, user_sessions, session_kind, handlers,
                   nextMsg, turn_n, add_log, last_add>>

(* lines 192-199; voice_settings holds "on" for True and "off" for False *)
help_command(u) ==
    LET on == setting_read(voice_settings, u, "on")
        cur == setting_read(voice_engine_settings, u,
                            default_engine(PIPER_AVAILABLE))
    IN  /\ MayHandle
        /\ voice_settings' = on.d
        /\ voice_engine_settings' = cur.d
        /\ last_cmd' = Command("help", u, cur.value,
                               "gtts" \notin DOMAIN VOICE_ENGINES, "none")
        /\ UNCHANGED <<variant, voice_features, engines, deliveries, numbers,
                       page_sizes, query, looked, prompt, response_len, outbox,
                       voice_reply, now, ticks, request_counts, user_sessions,
                       session_kind, handlers, nextMsg, turn_n, add_log,
                       last_add>>

(* lines 242-253 *)
voice_command(u) ==
    LET on == setting_get(voice_settings, u, "on") = "off"
        cur == setting_read(voice_engine_settings, u,
                            default_engine(PIPER_AVAILABLE))
    IN  /\ MayHandle
        /\ voice_settings' = [voice_settings EXCEPT ![u] =
                                  IF on THEN "on" ELSE "off"]
        /\ IF on
           THEN /\ voice_engine_settings' = cur.d
                /\ last_cmd' = Command("voice", u, cur.value,
                                       "gtts" \notin DOMAIN VOICE_ENGINES, "none")
           ELSE /\ UNCHANGED voice_engine_settings
                /\ last_cmd' = Command("voice", u, "none", FALSE, "none")
        /\ UNCHANGED <<variant, voice_features, engines, deliveries, numbers,
                       page_sizes, query, looked, prompt, response_len, outbox,
                       voice_reply, now, ticks, request_counts, user_sessions,
                       session_kind, handlers, nextMsg, turn_n, add_log,
                       last_add>>

(* lines 256-283: the engine marked as current in the list, when the list   *)
(* has it                                                                   *)
voice_select_command(u) ==
    LET cur == setting_read(voice_engine_settings, u,
                            default_engine(PIPER_AVAILABLE))
        listed == {e \in DOMAIN VOICE_ENGINES : VOICE_ENGINES[e]}
    IN  /\ MayHandle
        /\ voice_engine_settings' = cur.d
        /\ last_cmd' = Command("voice_select", u,
                               IF cur.value \in listed THEN cur.value ELSE "none",
                               FALSE, "none")
        /\ UNCHANGED <<variant, voice_features, voice_settings, engines,
                       deliveries, numbers, page_sizes, query, looked, prompt,
                       response_len, outbox, voice_reply, now, ticks,
                       request_counts, user_sessions, session_kind, handlers,
                       nextMsg, turn_n, add_log, last_add>>

(* lines 327-345, reached from the /voice_<engine> commands *)
set_voice_engine_command(u, e) ==
    /\ MayHandle
    /\ IF e \in DOMAIN VOICE_ENGINES /\ VOICE_ENGINES[e]
       THEN voice_engine_settings' = [voice_engine_settings EXCEPT ![u] = e]
       ELSE UNCHANGED voice_engine_settings
    /\ last_cmd' = Command("set_voice_engine", u, "none", FALSE, "none")
    /\ UNCHANGED <<variant, voice_features, voice_settings, engines,
                   deliveries, numbers, page_sizes, query, looked, prompt,
                   response_len, outbox, voice_reply, now, ticks,
                   request_counts, user_sessions, session_kind, handlers,
                   nextMsg, turn_n, add_log, last_add>>

(* handle_voice, lines 1309-1325, once the response is there and the        *)
(* request recorded: the engine is looked up and, when it is available,     *)
(* text_to_speech synthesises the voice reply                               *)
voice_reply_engine(u) ==
    LET selected == setting_get(voice_engine_settings, u, DEFAULT_VOICE_ENGINE)
    IN  /\ MayHandle
        /\ voice_features
        /\ last_cmd' =
             IF selected \notin DOMAIN VOICE_ENGINES
             THEN Command("voice_message", u, "none", TRUE, "none")
             ELSE IF VOICE_ENGINES[selected]
             THEN Command("voice_message", u, "none", FALSE,
                          text_to_speech_engine(voice_engine_settings, u,
                                                PIPER_AVAILABLE, VOICE_ENGINES))
             ELSE Command("voice_message", u, "none", FALSE, "text")
        /\ UNCHANGED <<variant, voice_features, settings, deliveries, numbers,
                       page_sizes, query, looked, prompt, response_len, outbox,
                       voice_reply, now, ticks, request_counts, user_sessions,
                       session_kind, handlers, nextMsg, turn_n, add_log,
                       last_add>>

StartupInit ==
    /\ variant = "main"
    /\ voice_features \in BOOLEAN
    /\ query = {}
    /\ looked = NoLook
    /\ prompt = <<>>
    /\ response_len = 0
    /\ outbox = <<>>
    /\ voice_reply = NoVoice
    /\ RegistriesInit
    /\ now = StartTime
    /\ ticks = 0
    /\ request_counts = [u \in Users |-> [minute |-> <<>>, day |-> <<>>]]
    /\ user_sessions = [u \in Users |-> <<>>]
    /\ session_kind = [u \in Users |-> "absent"]
    /\ handlers = [s \in Slots |-> Idle]
    /\ nextMsg = 1
    /\ turn_n = 1
    /\ add_log = <<>>
    /\ last_add = NoAdd

SettingsNext ==
    \/ main_startup
    \/ \E u \in Senders :
         \/ help_command(u)
         \/ voice_command(u)
         \/ voice_select_command(u)
         \/ voice_reply_engine(u)
         \/ \E e \in EngineIds : set_voice_engine_command(u, e)

SettingsSpec == StartupInit /\ [][SettingsNext]_vars

(* ------------------------------------- main.py: processed_messages ---- *)
(* handle_voice keeps the keys "{user_id}_{message_id}" of the voice        *)
(* messages it has taken up in the module-level dict processed_messages.    *)
(* Here one invocation runs from its first line to its last without         *)
(* another one in between, and the registries it works on are passed as a   *)
(* record w, so that the same invocation can be run on the registries as    *)
(* they are and on the registries as they would be without the other users. *)
PROCESSED_CAP == 100
PROCESSED_KEEP == 50

MaxOthers == 100
MaxDeliveries == 3

(* the user whose first voice message is delivered again *)
TrackedUser == 2
TrackedMsg == 1

(* what happens inside the try block once the request is admitted: an       *)
(* exception before a text is recognised, no text recognised, no response   *)
(* of the language model, a response                                        *)
VoicePaths == {"raised", "no_text", "no_response", "answered"}

Registries ==
    [processed_messages |-> processed_messages,
     request_counts |-> request_counts,
     user_sessions |-> user_sessions,
     admissions |-> admissions]

Keys(pm) == {pm[i] : i \in 1..Len(pm)}

(* lines 1372-1377: the finally clause *)
prune_processed(pm) ==
    IF Len(pm) > PROCESSED_CAP
    THEN SubSeq(pm, Len(pm) - PROCESSED_KEEP + 1, Len(pm))
    ELSE pm

Ran(w, exit, llm, appended, recorded) ==
    [w |-> w, exit |-> exit, llm |-> llm, appended |-> appended,
     recorded |-> recorded]

(* lines 1249-1370: the try block with its except clause *)
handle_voice_try(w, u, m, path, t) ==
    LET c == can_make_request(w.request_counts, u, t)
        checked == [w EXCEPT !.request_counts = c.rc,
                             !.admissions[u] = Append(@, c.ok)]
        asked == [checked EXCEPT !.user_sessions[u] =
                      deque_append(@, Turn("user", m, "content", NoTs, 0))]
        answered == [asked EXCEPT
                       !.request_counts = add_request(@, u, t),
                       !.user_sessions[u] =
                           deque_append(@, Turn("assistant", m, "content", NoTs, 0))]
    IN  IF ~c.ok THEN Ran(checked, "rejected", FALSE, 0, FALSE)
        ELSE CASE path = "raised"      -> Ran(checked, "exception", FALSE, 0, FALSE)
               [] path = "no_text"     -> Ran(checked, "recognition_failure",
                                              FALSE, 0, FALSE)
               [] path = "no_response" -> Ran(asked, "no_response", TRUE, 1, FALSE)
               [] OTHER                -> Ran(answered, "success", TRUE, 2, TRUE)

(* handle_voice, lines 1226-1377 *)
handle_voice_run(w, vf, u, m, path, t) ==
    LET key == <<u, m>>
        marked == [w EXCEPT !.processed_messages = Append(@, key)]
        r == handle_voice_try(marked, u, m, path, t)
    IN  IF key \in Keys(w.processed_messages)
        THEN Ran(w, "duplicate", FALSE, 0, FALSE)
        ELSE IF ~vf
        THEN Ran(marked, "voice_unavailable", FALSE, 0, FALSE)
        ELSE [r EXCEPT !.w.processed_messages = prune_processed(@)]

(* the registries and the record of the run, after the run r for (u, m) *)
VoiceRan(r, u, m, nth) ==
    /\ processed_messages' = r.w.processed_messages
    /\ request_counts' = r.w.request_counts
    /\ user_sessions' = r.w.user_sessions
    /\ admissions' = r.w.admissions
    /\ session_kind' = [session_kind EXCEPT ![u] =
                            IF r.appended > 0 THEN touched(@) ELSE @]
    /\ last_voice' = [user |-> u, msg |-> m, nth |-> nth, exit |-> r.exit,
                      llm |-> r.llm, appended |-> r.appended,
                      recorded |-> r.recorded]

(* the update with the tracked user's voice message is delivered: the first *)
(* time, or once more                                                       *)
deliver_tracked ==
    /\ delivered.tracked < MaxDeliveries
    /\ \E path \in VoicePaths :
         /\ VoiceRan(handle_voice_run(Registries, voice_features, TrackedUser,
                                      TrackedMsg, path, now),
                     TrackedUser, TrackedMsg, delivered.tracked + 1)
         /\ alone' = handle_voice_run(alone, voice_features, TrackedUser,
                                      TrackedMsg, path, now).w
    /\ delivered' = [delivered EXCEPT !.tracked = @ + 1]
    /\ UNCHANGED <<variant, voice_features, settings, numbers, page_sizes,
                   last_cmd, query, looked, prompt, response_len, outbox,
                   voice_reply, now, ticks, handlers, nextMsg, turn_n, add_log,
                   last_add>>

(* a new voice message of another user is delivered *)
deliver_other ==
    /\ delivered.tracked >= 1
    /\ delivered.others < MaxOthers
    /\ VoiceRan(handle_voice_run(Registries, voice_features, 1,
                                 delivered.others + 1, delivered.path, now),
                1, delivered.others + 1, 1)
    /\ delivered' = [delivered EXCEPT !.others = @ + 1]
    /\ UNCHANGED <<variant, voice_features, settings, numbers, page_sizes,
                   alone, last_cmd, query, looked, prompt, response_len, outbox,
                   voice_reply, now, ticks, handlers, nextMsg, turn_n, add_log,
                   last_add>>

DedupInit ==
    /\ variant = "main"
    /\ voice_features \in BOOLEAN
    /\ query = {}
    /\ looked = NoLook
    /\ prompt = <<>>
    /\ response_len = 0
    /\ outbox = <<>>
    /\ voice_reply = NoVoice
    /\ SettingsInit
    /\ NoNews
    /\ processed_messages = <<>>
    /\ \E path \in VoicePaths :
         delivered = [others |-> 0, tracked |-> 0, path |-> path]
    /\ last_voice = NoRun
    /\ admissions = [u \in Users |-> <<>>]
    /\ now = StartTime
    /\ ticks = 0
    /\ request_counts = [u \in Users |-> [minute |-> <<>>, day |-> <<>>]]
    /\ user_sessions = [u \in Users |-> <<>>]
    /\ session_kind = [u \in Users |-> "absent"]
    /\ handlers = [s \in Slots |-> Idle]
    /\ nextMsg = 1
    /\ turn_n = 1
    /\ add_log = <<>>
    /\ last_add = NoAdd
    /\ alone = Registries

DedupNext == deliver_tracked \/ deliver_other

DedupSpec == DedupInit /\ [][DedupNext]_vars

(* one step of the invocation in slot s, whichever handler it runs *)
HandlerStep(s) ==
    \/ handle_message_check(s) \/ handle_message_append(s)
    \/ handle_message_llm(s) \/ handle_message_send(s)
    \/ handle_photo_check(s) \/ handle_photo_work(s)
    \/ handle_voice_check(s) \/ handle_voice_transcribe(s)
    \/ handle_voice_llm(s) \/ handle_voice_send(s)
    \/ backup_handle_message_check(s) \/ backup_handle_message_route(s)
    \/ backup_handle_message_llm(s)
    \/ backup_handle_photo_check(s) \/ backup_handle_photo_append(s)
    \/ backup_handle_photo_llm(s)
    \/ backup_handle_voice_check(s) \/ backup_handle_voice_transcribe(s)
    \/ backup_handle_voice_llm(s)
    \/ error_handler(s)

(* The event loop resumes every coroutine whose await has completed, and    *)
(* every await of a handler is a network call that returns or raises        *)
(* (timeout=30 in main.py's posts, the HTTP client's default total timeout  *)
(* elsewhere): an invocation that can take a step eventually takes it.      *)
FairSpec == Spec /\ \A s \in Slots : WF_vars(HandlerStep(s))

(* ================================================================ claims *)
Last(w) == w[Len(w)]

(* the number of records of a window inside the interval of the given      *)
(* length that ends at the window's latest record.  Records are appended    *)
(* in time order, so an interval holding too many records is found in the   *)
(* state in which its latest record was appended.                           *)
InRolling(w, span) ==
    IF Len(w) = 0 THEN 0
    ELSE Cardinality({i \in 1..Len(w) : w[i] > Last(w) - span /\ w[i] <= Last(w)})

(* the session holds a turn of the inbound update msg with the given role *)
HasTurn(u, msg, role) ==
    \E i \in 1..Len(user_sessions[u]) :
        user_sessions[u][i].msg = msg /\ user_sessions[u][i].role = role

(* C1: for every user, no rolling 60-second interval holds more than       *)
(* MINUTE_LIMIT recorded requests and no rolling 24-hour interval more      *)
(* than DAILY_LIMIT, whatever the interleaving of the user's messages.      *)
C1_WindowsNeverExceedLimits ==
    \A u \in Users :
        /\ InRolling(request_counts[u].minute, MINUTE_SECONDS) <= MINUTE_LIMIT
        /\ InRolling(request_counts[u].day, DAY_SECONDS) <= DAILY_LIMIT

(* C2: an invocation has recorded a request only if its language-model     *)
(* call returned a response; a failed or absent call leaves no record.      *)
C2_RecordOnlyAfterResponse ==
    \A s \in Slots : handlers[s].recorded > 0 => handlers[s].llm \in {"ok", "empty"}

(* C3: in every state and for every user, can_make_request is True exactly *)
(* when both remainders of get_remaining_requests are positive, and False   *)
(* exactly when the minute window holds MINUTE_LIMIT or more live records   *)
(* or the day window DAILY_LIMIT or more; every admission decision taken    *)
(* by a handler agrees with it.                                             *)
C3_AdmitIffNoWindowExhausted ==
    /\ \A u \in Users :
         LET c == can_make_request(request_counts, u, now)
             r == get_remaining_requests(request_counts, u, now)
             exhausted ==
                \/ Live(request_counts[u].minute, now, MINUTE_SECONDS) >= MINUTE_LIMIT
                \/ Live(request_counts[u].day, now, DAY_SECONDS) >= DAILY_LIMIT
         IN  /\ c.ok = (r.minute > 0 /\ r.day > 0)
             /\ c.ok = ~exhausted
    /\ \A s \in Slots :
         LET h == handlers[s]
         IN  h.admit # "?" =>
               (h.admit = "no") = (h.chk.m >= MINUTE_LIMIT \/ h.chk.d >= DAILY_LIMIT)

(* C3 witness: a handler refused a sender whose day window alone was full *)
C3_Witness ==
    \E s \in Slots :
        /\ handlers[s].admit = "no"
        /\ handlers[s].chk.d >= DAILY_LIMIT
        /\ handlers[s].chk.m < MINUTE_LIMIT

(* C4: each add_request lowers remaining_minute by exactly 1 and never     *)
(* below 0, and once 60 seconds have passed since the user's last recorded  *)
(* request get_remaining_requests returns the full MINUTE_LIMIT.            *)
C4_AddLowersRemainingByOne ==
    /\ last_add # NoAdd =>
         /\ last_add.after = last_add.before - 1
         /\ last_add.after >= 0
    /\ \A u \in Users :
         (Len(request_counts[u].day) > 0
            /\ now - Last(request_counts[u].day) >= MINUTE_SECONDS)
         => get_remaining_requests(request_counts, u, now).minute = MINUTE_LIMIT

(* C5: a text message that arrives when the sender has MINUTE_LIMIT        *)
(* answered requests inside the last minute and room left in the day is     *)
(* rejected, and the reply shows 0 for the minute and the positive day      *)
(* remainder; a text message that arrives 61 seconds or more after the      *)
(* sender's last recorded request, with room left in the day, is admitted.  *)
C5_EleventhRejectedTwelfthAdmitted ==
    \A s \in Slots :
        LET h == handlers[s]
        IN  (h.kind = "text" /\ h.admit # "?" /\ h.chk.d < DAILY_LIMIT) =>
              /\ h.chk.m >= MINUTE_LIMIT =>
                    /\ h.admit = "no"
                    /\ Len(h.sends) >= 1
                    /\ h.sends[1].what = "limit"
                    /\ h.sends[1].rm = 0
                    /\ h.sends[1].rd = DAILY_LIMIT - h.chk.d
                    /\ h.sends[1].rd > 0
              /\ h.chk.age >= MINUTE_SECONDS + 1 => h.admit = "yes"

(* C5 witness: the sender's eleventh text message inside a minute was      *)
(* rejected with 0 for the minute, and the next one, taken up 61 seconds    *)
(* or more after the last recorded request, was admitted                    *)
C5_Witness ==
    \E s \in Slots : \E s2 \in Slots :
        /\ handlers[s].kind = "text"
        /\ handlers[s].admit = "no"
        /\ handlers[s].chk.m = MINUTE_LIMIT
        /\ Len(handlers[s].sends) >= 1
        /\ handlers[s].sends[1].rm = 0
        /\ handlers[s].sends[1].rd > 0
        /\ handlers[s2].kind = "text"
        /\ handlers[s2].user = handlers[s].user
        /\ handlers[s2].msg > handlers[s].msg
        /\ handlers[s2].admit = "yes"
        /\ handlers[s2].chk.age >= MINUTE_SECONDS + 1

C7_WindowsFreshAfterAdd ==
    last_add # NoAdd =>
        /\ \A i \in 1..Len(last_add.minute) :
               last_add.minute[i] > last_add.at - MINUTE_SECONDS
        /\ \A i \in 1..Len(last_add.day) :
               last_add.day[i] > last_add.at - DAY_SECONDS

(* C8: in every state each user's session holds at most 50 turns. *)
C8_SessionAtMostFiftyTurns ==
    \A u \in Users : Len(user_sessions[u]) <= SESSION_MAXLEN

(* C9: for two messages of one user, every session turn of the earlier     *)
(* message precedes every turn of the later one, and the rate-window        *)
(* record of the earlier message is added before that of the later one.     *)
C9_ArrivalOrderKept ==
    /\ \A u \in Users :
         \A i, j \in 1..Len(user_sessions[u]) :
            (i < j /\ user_sessions[u][i].msg > 0 /\ user_sessions[u][j].msg > 0)
            => user_sessions[u][i].msg <= user_sessions[u][j].msg
    /\ \A i, j \in 1..Len(add_log) :
            (i < j /\ add_log[i].user = add_log[j].user)
            => add_log[i].msg <= add_log[j].msg

(* C10: when the language-model call fails, call_gemini_api hands its      *)
(* caller no text, no assistant turn of the message enters the session,     *)
(* and no reply carries the returned text as the model's answer.            *)
C10_FailedCallYieldsNone ==
    \A s \in Slots :
        LET h == handlers[s]
        IN  h.llm = "failed" =>
              /\ ~Truthy(h.resp)
              /\ ~HasTurn(h.user, h.msg, "assistant")
              /\ \A i \in 1..Len(h.sends) : h.sends[i].what # "model"

(* the invocation in slot s has had a reply accepted by the transport *)
Replied(s) == \E i \in 1..Len(handlers[s].sends) : handlers[s].sends[i].ok

(* C11: every inbound text, photo or voice message eventually results in   *)
(* at least one reply to the chat, on every path: its invocation runs to    *)
(* its end and by then the transport has accepted a reply.                  *)
C11_EveryMessageGetsAReply ==
    \A s \in Slots :
        (handlers[s].pc = "check") ~> (handlers[s].pc = "done" /\ Replied(s))

(* the position of a step in the steps an invocation has taken, 0 if absent *)
StepAt(steps, x) ==
    IF \E i \in 1..Len(steps) : steps[i] = x
    THEN CHOOSE i \in 1..Len(steps) : steps[i] = x
    ELSE 0

(* C12: an admitted text message whose language-model call succeeded went  *)
(* through admission check, user turn, classification, language-model       *)
(* call, assistant turn, record of the request and reply, in that order.    *)
C12_StepsInSpecifiedOrder ==
    \A s \in Slots :
        LET h == handlers[s]
            at(x) == StepAt(h.steps, x)
        IN  (h.kind = "text" /\ h.pc = "done" /\ h.admit = "yes" /\ h.llm = "ok") =>
              /\ 0 < at("admit")
              /\ at("admit") < at("user_turn")
              /\ at("user_turn") < at("classify")
              /\ at("classify") < at("llm")
              /\ at("llm") < at("assistant_turn")
              /\ at("assistant_turn") < at("record")
              /\ at("record") < at("reply")

(* the first of a set of categories in the order DateTime, Currency,       *)
(* Weather, News, generic temporal marker, GeneralSearch                    *)
FirstInOrder(m) ==
    CASE "DateTime" \in m -> "DateTime"
      [] "Currency" \in m -> "Currency"
      [] "Weather" \in m  -> "Weather"
      [] "News" \in m     -> "News"
      [] "Temporal" \in m -> "Temporal"
      [] "GeneralSearch" \in m -> "GeneralSearch"
      [] OTHER -> "None"

(* the branch that was taken found what it looked for *)
BranchFound == looked.outs[1] = "found"

(* C13: when a message passes the keyword tests of several categories, the *)
(* category acted on is the first of them in the order DateTime, Currency,  *)
(* Weather, News, generic temporal marker, GeneralSearch, at every place    *)
(* where the dispatch is made.                                              *)
C13_FirstMatchInFixedOrder ==
    (looked # NoLook /\ BranchFound
        /\ looked.category \in {"Currency", "Weather", "News", "GeneralSearch"})
    => looked.category = FirstInOrder(looked.matches)

(* C14: a message with a temporal marker and both halves of the            *)
(* "interesting fact" phrase is classified None: needs_current_data is      *)
(* False for it and no lookup is made.                                      *)
C14_InterestingFactCarveOut ==
    (looked # NoLook
        /\ "segodnya" \in query /\ "interesny" \in query /\ "fakt" \in query)
    => /\ ~looked.needs
       /\ looked.site = "handle_message" =>
             (looked.category = "None" /\ looked.text = <<>>)

(* C15: when get_current_data asks several sources and one fails while     *)
(* another succeeds, the text it returns is not empty, holds the findings   *)
(* of a source and holds no message of a failed source.                     *)
C15_FailedSourceContributesNothing ==
    (looked # NoLook /\ looked.site = "get_current_data"
        /\ (\E i \in 1..Len(looked.asked) : looked.asked[i] = "found")
        /\ (\E i \in 1..Len(looked.asked) : looked.asked[i] # "found"))
    => /\ \E i \in 1..Len(looked.text) :
              looked.text[i].kind = "found" /\ looked.text[i].src # "datetime"
       /\ \A i \in 1..Len(looked.text) : looked.text[i].kind = "found"

(* C16: for a message whose category is not None the current-data text     *)
(* begins with the date and time block, whichever branch wrote the rest.    *)
C16_TextBeginsWithDateTime ==
    (looked # NoLook /\ looked.category # "None")
    => (looked.text # <<>> /\ looked.text[1].src = "datetime")

(* C17: the parts posted for a message that has no augmentation block end  *)
(* with the current message and hold no injected instruction: every part   *)
(* is a turn of the user's session or the current message.                  *)
C17_PromptHoldsOnlySessionAndMessage ==
    prompt # <<>> =>
        /\ Last(prompt).role = "user" /\ Last(prompt).msg = 1
        /\ \A i \in 1..Len(prompt) :
              /\ prompt[i].role # "system"
              /\ \E j \in 1..Len(user_sessions[1]) :
                    user_sessions[1][j].n = prompt[i].n

(* C18: the parts posted for a message hold at most the last ten turns of  *)
(* the session besides the message itself (each cut to a fixed number of    *)
(* characters), however many turns the session holds.  The turns carry no   *)
(* character count here: the bound on their number is what is stated.       *)
C18_PromptHoldsAtMostTenTurns ==
    prompt # <<>> =>
        Cardinality({i \in 1..Len(prompt) :
                        prompt[i].role # "system" /\ prompt[i].msg # 1}) <= 10

(* C19: every text handed to reply_text has at most 4096 characters,       *)
(* whatever the length of the language model's response.                    *)
C19_EveryTextWithinMessageLimit ==
    \A i \in 1..Len(outbox) : outbox[i].len <= 4096

(* the parts for which text_to_speech returned None *)
Unvoiced == {k \in 1..Len(voice_reply.tts) : voice_reply.tts[k] = "none"}

(* the assistant turns stored for the voice message *)
AnswerTurns ==
    {j \in 1..Len(user_sessions[1]) :
        user_sessions[1][j].role = "assistant" /\ user_sessions[1][j].msg = 1}

(* the text of part k was handed to reply_text / was accepted there *)
TextHanded(k) ==
    \E j \in 1..Len(voice_reply.sent) :
        /\ voice_reply.sent[j].part = k
        /\ voice_reply.sent[j].what \in {"text_warned", "text_plain"}

TextDelivered(k) ==
    \E j \in 1..Len(voice_reply.sent) :
        /\ voice_reply.sent[j].part = k
        /\ voice_reply.sent[j].what \in {"text_warned", "text_plain"}
        /\ voice_reply.sent[j].ok

(* the transport accepted every plain-text reply made for the response *)
TextRepliesAccepted ==
    \A j \in 1..Len(voice_reply.sent) :
        voice_reply.sent[j].what \in {"text_warned", "text_plain"}
            => voice_reply.sent[j].ok

HandedText(s, what) ==
    \E i \in 1..Len(handlers[s].sends) : handlers[s].sends[i].what = what

(* C21: when speech_to_text returned None for a voice message, handle_voice *)
(* has sent the hint, has called the language model not at all and the      *)
(* recognition not again (it has ended), has appended no turn for the       *)
(* message to the session and has recorded no request for it.               *)
C21_RecognitionFailureEndsWithHint ==
    \A s \in Slots :
        (handlers[s].kind = "voice" /\ handlers[s].stt = "none")
        => /\ HandedText(s, "hint")
           /\ handlers[s].pc \in {"done", "raised"}
           /\ handlers[s].llm = "none"
           /\ handlers[s].recorded = 0
           /\ \A i \in 1..Len(add_log) : add_log[i].msg # handlers[s].msg
           /\ \A u \in Users : \A i \in 1..Len(user_sessions[u]) :
                 user_sessions[u][i].msg # handlers[s].msg

(* a voice message of an admitted user whose recognition gave nothing and  *)
(* whose hint the transport accepted                                        *)
C21_Witness ==
    \E s \in Slots :
        /\ handlers[s].kind = "voice" /\ handlers[s].stt = "none"
        /\ handlers[s].admit = "yes" /\ handlers[s].pc = "done"
        /\ \E i \in 1..Len(handlers[s].sends) :
              handlers[s].sends[i].what = "hint" /\ handlers[s].sends[i].ok

(* C22: clear_command leaves the issuing user's session empty and changes  *)
(* nothing else: that user's rate windows and voice settings and every      *)
(* other user's session and rate windows are after the command what they    *)
(* were before it.                                                          *)
C22_ClearEmptiesOnlyOwnSession ==
    [][(last_cmd' # last_cmd /\ last_cmd'.name = "clear") =>
          /\ user_sessions'[last_cmd'.user] = <<>>
          /\ \A v \in Users \ {last_cmd'.user} :
                user_sessions'[v] = user_sessions[v]
          /\ request_counts' = request_counts
          /\ voice_settings' = voice_settings
          /\ voice_engine_settings' = voice_engine_settings]_vars

(* a user with stored turns has cleared them while another user has turns  *)
(* and recorded requests                                                    *)
C22_Witness ==
    /\ last_cmd.name = "clear" /\ last_cmd.had > 0
    /\ user_sessions[last_cmd.user] = <<>>
    /\ \E v \in Users \ {last_cmd.user} :
          /\ Len(user_sessions[v]) > 0
          /\ Len(request_counts[v].day) > 0

(* the most recent turn of the session is older / younger than 24 hours *)
LastTurnOlder(sess, t) == Len(sess) > 0 /\ Last(sess).ts < t - DAY_SECONDS

LastTurnYounger(sess, t) == Len(sess) > 0 /\ Last(sess).ts > t - DAY_SECONDS

(* C23: after cleanup_old_data has run no session remains whose most       *)
(* recent turn is older than 24 hours, and every session whose most recent  *)
(* turn is younger than 24 hours has the turns it had before.               *)
C23_SweepRemovesExactlyIdleSessions ==
    [][(last_cmd' # last_cmd /\ last_cmd'.name = "cleanup") =>
          \A u \in Users :
              /\ ~LastTurnOlder(user_sessions'[u], now)
              /\ LastTurnYounger(user_sessions[u], now)
                    => user_sessions'[u] = user_sessions[u]]_vars

(* the sweep has removed the idle session of one user and kept the turns   *)
(* of another, who wrote after the day had passed                           *)
C23_Witness ==
    /\ last_cmd.name = "cleanup"
    /\ \E u, v \in Users :
          /\ user_sessions[u] = <<>> /\ session_kind[u] = "absent"
          /\ LastTurnYounger(user_sessions[v], now)

(* C24: the article count search_news asks the news client for is always   *)
(* between 1 and 50: the number in the message capped at 50 when the        *)
(* message holds a number, 10 when it holds none.                           *)
C24_ArticleCountWithinOneAndFifty ==
    \A i \in 1..Len(page_sizes) :
        /\ page_sizes[i] >= 1 /\ page_sizes[i] <= 50
        /\ numbers = <<>> => page_sizes[i] = 10
        /\ Len(numbers) = 1 =>
              page_sizes[i] = (IF numbers[1].n > 50 THEN 50 ELSE numbers[1].n)

(* how many times t occurs in seq *)
Occurrences(seq, t) == Cardinality({i \in 1..Len(seq) : seq[i] = t})

(* C28: for every user each timestamp of the minute list occurs in the day  *)
(* list at least as many times, so the minute count never exceeds the day   *)
(* count, and a day remainder of 0 refuses admission whatever the minute    *)
(* window holds.                                                            *)
C28_MinuteListWithinDayList ==
    \A u \in Users :
        LET rc == request_counts[u]
            r == get_remaining_requests(request_counts, u, now)
        IN  /\ \A i \in 1..Len(rc.minute) :
                 Occurrences(rc.minute, rc.minute[i])
                     <= Occurrences(rc.day, rc.minute[i])
            /\ Len(rc.minute) <= Len(rc.day)
            /\ Len(r.rc[u].minute) <= Len(r.rc[u].day)
            /\ r.day = 0 => ~can_make_request(request_counts, u, now).ok

(* C28 witness: a request was recorded, the minute list holds it, and the   *)
(* day remainder is 0 while the minute remainder is not                     *)
C28_Witness ==
    /\ last_add # NoAdd
    /\ \E u \in Users :
         LET r == get_remaining_requests(request_counts, u, now)
         IN  /\ Len(request_counts[u].minute) >= 1
             /\ Last(request_counts[u].minute) = Last(request_counts[u].day)
             /\ r.day = 0 /\ r.minute > 0
             /\ ~can_make_request(request_counts, u, now).ok

(* C25: nothing another user does changes a user's rate windows, session   *)
(* or admission decisions: they are what they would be had the user been    *)
(* the only one to write, with the same messages delivered at the same      *)
(* times.                                                                   *)
C25_OtherUsersLeaveNoTrace ==
    /\ request_counts[TrackedUser] = alone.request_counts[TrackedUser]
    /\ user_sessions[TrackedUser] = alone.user_sessions[TrackedUser]
    /\ admissions[TrackedUser] = alone.admissions[TrackedUser]

(* C26: every delivery of a voice message after its first one is skipped:  *)
(* no language-model call, no session append, no rate-window record.        *)
C26_VoiceMessageProcessedAtMostOnce ==
    (last_voice.user = TrackedUser /\ last_voice.nth >= 2) =>
        /\ last_voice.exit = "duplicate"
        /\ ~last_voice.llm
        /\ last_voice.appended = 0
        /\ ~last_voice.recorded

(* C27: after every completed handle_voice invocation, whatever its exit,  *)
(* processed_messages holds at most 100 entries.                            *)
C27_ProcessedMessagesAtMostHundred ==
    last_voice # NoRun => Len(processed_messages) <= PROCESSED_CAP

SettingsHandlers == {"help", "voice", "voice_select", "set_voice_engine",
                     "voice_message"}

HandlerRan == last_cmd # NoCmd /\ last_cmd.name \in SettingsHandlers

(* C29: whenever a handler runs, on every startup path of main(),          *)
(* VOICE_ENGINES has the "gtts" entry and an entry for the engine selected  *)
(* for the user, so no handler fails on a missing engine entry.             *)
C29_EngineEntriesPresentForHandlers ==
    HandlerRan =>
        /\ "gtts" \in DOMAIN VOICE_ENGINES
        /\ setting_get(voice_engine_settings, last_cmd.user,
                       DEFAULT_VOICE_ENGINE) \in DOMAIN VOICE_ENGINES
        /\ ~last_cmd.keyerror

(* the engine text_to_speech would synthesise u's next voice reply with *)
NextReplyEngine(u) ==
    text_to_speech_engine(voice_engine_settings, u, PIPER_AVAILABLE,
                          VOICE_ENGINES)

(* C30: /help, /voice and /voice_select leave the engine text_to_speech    *)
(* uses for the user's next voice reply as it was, and the engine they      *)
(* report as current is that engine.                                        *)
C30_ReadingCommandsKeepEngine ==
    [][(/\ last_cmd' # last_cmd
        /\ last_cmd'.name \in {"help", "voice", "voice_select"}
        /\ ~last_cmd'.keyerror
        /\ voice_features)
       => LET u == last_cmd'.user
              after == text_to_speech_engine(voice_engine_settings', u,
                                             PIPER_AVAILABLE', VOICE_ENGINES')
          IN  /\ after = NextReplyEngine(u)
              /\ last_cmd'.reported # "none" => last_cmd'.reported = after]_vars

====
